---- MODULE Spec2Model ----
(***************************************************************************)
(* A model of the Raft engine of src/ovsdb/raft.c.                         *)
(*                                                                         *)
(* Every server is one record (the fields of "struct raft" that the        *)
(* consensus code reads or writes, plus the contents of its storage file). *)
(* Every function of raft.c that changes state is an operator from a       *)
(* context to a context; a context holds the server record "s", the RPCs   *)
(* the function handed to raft_send ("out") and the events the history     *)
(* variables record ("ev").  An action runs one entry point of the main    *)
(* loop (one handled RPC, one expired timer, one raft_waiters_run, one     *)
(* API call) or one round of the fsync thread, or crashes a server and     *)
(* replays its file.                                                       *)
(*                                                                         *)
(* The network is the set of the RPCs in flight: an RPC can be handled     *)
(* late, out of order or never.                                            *)
(*                                                                         *)
(* "hist" records what has happened (who led which term, what was applied  *)
(* and committed, which votes were held, which assertions failed); "done"  *)
(* counts the steps taken of a schedule; "fs" is the state of the fsync    *)
(* thread where its round is modelled step by step, and 0 elsewhere.       *)
(***************************************************************************)
EXTENDS Integers, Sequences, FiniteSets, TLC

VARIABLES raft, msgs, hist, fs, done

vars == <<raft, msgs, hist, fs, done>>

(***************************************************************************)
(* Bounds of the model.                                                    *)
(***************************************************************************)
\* Servers of the cluster in which elections are studied.
NServers == 3
\* Servers of the cluster in which replication is studied.
NReplServers == 2
\* No election starts from this term on; the second where logs are at stake.
MaxTerm == 2
MaxReplTerm == 3
\* Crashes, commands of the client and expiries of the ping timer.
MaxCrash == 1
MaxCmds == 2
MaxHeartbeats == 1
\* Expiries of the ping timer where stale replies are studied.
MaxLatePings == 2
\* Steps whose writes the store fails; commits that fail.
MaxWriteFails == 1
MaxCommitFails == 1
\* AddServer requests that reach a leader.
MaxAdds == 1
\* Commands of the client while a server joins.
MaxJoinCmds == 1
\* Chunks of a snapshot that are sent once more.
MaxChunkRepeats == 2
\* No election starts from this term on where stale RPCs are studied.
MaxStaleTerm == 4
\* AddServer requests that reach a leader where stale RPCs are studied.
MaxTermAdds == 2
\* The last index of a snapshot or of a request at the snapshot boundary.
MaxBoundaryIndex == 4
\* Entries of a request at the snapshot boundary.
MaxBoundaryEntries == 3
\* Commands of the run in which a leader's entry is overwritten.
MaxOverwriteCmds == 3
\* The largest value of the fsync counters' type, which no counter of the
\* model reaches.
UINT64_MAX == 2147483647

Server == DOMAIN raft
None == 0

Follower == "follower"
Candidate == "candidate"
Leader == "leader"
Aborted == "aborted"

RAFT_DATA == "data"
RAFT_SERVERS == "servers"

RAFT_PHASE_STABLE == "stable"
RAFT_PHASE_CATCHUP == "catchup"
RAFT_PHASE_CAUGHT_UP == "caught_up"
RAFT_PHASE_COMMITTING == "committing"
RAFT_PHASE_REMOVE == "remove"

RAFT_W_COMMAND == "w_command"
RAFT_W_APPEND == "w_append"
RAFT_W_VOTE == "w_vote"

Min(a, b) == IF a < b THEN a ELSE b
Max(a, b) == IF a > b THEN a ELSE b

(***************************************************************************)
(* Strings of bytes.  Every snapshot of a cluster descends from the data   *)
(* raft_create was given, so a string is the sequence of the runs          *)
(* <<lo, hi>> of that data it is made of: the bytes lo .. hi - 1.  The     *)
(* whole data of length n > 0 is << <<0, n>> >>.                           *)
(***************************************************************************)
RECURSIVE BytesLen(_)
BytesLen(b) == IF b = <<>> THEN 0 ELSE (b[1][2] - b[1][1]) + BytesLen(Tail(b))

\* The first n bytes of b, all of b when it has fewer.
RECURSIVE Take(_, _)
Take(b, n) ==
    IF n <= 0 \/ b = <<>> THEN <<>>
    ELSE IF b[1][2] - b[1][1] <= n
    THEN <<b[1]>> \o Take(Tail(b), n - (b[1][2] - b[1][1]))
    ELSE << <<b[1][1], b[1][1] + n>> >>

\* b without its first n bytes.
RECURSIVE Drop(_, _)
Drop(b, n) ==
    IF b = <<>> THEN <<>>
    ELSE IF n <= 0 THEN b
    ELSE IF b[1][2] - b[1][1] <= n THEN Drop(Tail(b), n - (b[1][2] - b[1][1]))
    ELSE << <<b[1][1] + n, b[1][2]>> >> \o Tail(b)

\* a followed by b; runs that continue one another are one run.
Concat(a, b) ==
    IF a = <<>> THEN b
    ELSE IF b = <<>> THEN a
    ELSE IF a[Len(a)][2] = b[1][1]
    THEN SubSeq(a, 1, Len(a) - 1) \o << <<a[Len(a)][1], b[1][2]>> >> \o Tail(b)
    ELSE a \o b

(***************************************************************************)
(* The log: entry i is log[i - log_start + 1]; log_end is one past the     *)
(* last entry.                                                             *)
(***************************************************************************)
log_end(s) == s.log_start + Len(s.log)

Entry(s, index) == s.log[index - s.log_start + 1]

\* The term of the last entry, or prev_term when the log is empty.
LastTerm(s) == IF log_end(s) > s.log_start THEN Entry(s, log_end(s) - 1).term
               ELSE s.prev_term

(***************************************************************************)
(* Contexts.  "ev" collects what the history variables record: the terms   *)
(* in which the server became leader, the entries it applied, the indexes  *)
(* it committed as leader, the commands it completed, the assertions that  *)
(* failed.                                                                 *)
(***************************************************************************)
\* "ok" is the outcome of the storage writes the function makes.  "ub" is
\* the outcome of an undefined operation, should the function reach one: -1
\* when the process dies of it, otherwise the value a read outside the log
\* array yields; "ubhit" tells whether one was reached.  "ret" is the
\* function's return value where the caller looks at it.
Ctx(s, ok, ub) == [s |-> s, out |-> {}, ev |-> {}, ok |-> ok, ub |-> ub,
                   ubhit |-> FALSE, ret |-> 0]

Upd(c, s) == [c EXCEPT !.s = s]

Emit(c, e) == [c EXCEPT !.ev = @ \cup {e}]

\* A failed ovs_assert (or a NULL dereference) ends the process.
Abort(c) == [c EXCEPT !.s.role = Aborted]

Live(c) == c.s.role /= Aborted

(***************************************************************************)
(* Storage.  "file" holds the records written after the snapshot record,   *)
(* "synced" how many of them a completed fsync covers.  A write that       *)
(* fails leaves the file as it was.                                        *)
(***************************************************************************)
StateRec(term, vote) == [kind |-> "state", term |-> term, vote |-> vote,
                         index |-> 0, type |-> RAFT_DATA, data |-> None]

EntryRec(index, e) == [kind |-> "entry", term |-> e.term, vote |-> None,
                       index |-> index, type |-> e.type, data |-> e.data]

ovsdb_log_write(s, rec, ok) == IF ok THEN [s EXCEPT !.file = Append(@, rec)] ELSE s

\* Writes {term, vote}; the vote is written only when it is not all-zeros.
raft_write_state(s, term, vote, ok) == ovsdb_log_write(s, StateRec(term, vote), ok)

(***************************************************************************)
(* Server sets.  A "struct raft_server" keeps the per-peer fields.         *)
(***************************************************************************)
\* next_index = log_end, match_index = 0, phase = STABLE.
raft_server_init_leader(s, srv) ==
    [srv EXCEPT !.next_index = log_end(s), !.match_index = 0,
                !.phase = RAFT_PHASE_STABLE]

NewServer(s) ==
    raft_server_init_leader(s, [voted |-> TRUE, next_index |-> 0,
                                match_index |-> 0, phase |-> RAFT_PHASE_STABLE,
                                reply_sid |-> None])

\* The struct raft_server of x, a member of the configuration or a server
\* being added, and its replacement.
Peer(s, x) == IF x \in DOMAIN s.servers THEN s.servers[x] ELSE s.add_servers[x]

SetPeer(c, x, srv) ==
    IF x \in DOMAIN c.s.servers THEN [c EXCEPT !.s.servers[x] = srv]
    ELSE [c EXCEPT !.s.add_servers[x] = srv]

\* The hash map hands out the added servers in an order the model fixes as
\* ascending server id; "me" ends up on the last added server that is not
\* the local one.
raft_set_servers(s, new) ==
    LET old == DOMAIN s.servers
        added == new \ old
        others == added \ {s.sid}
        me1 == IF s.me \in old \ new THEN None ELSE s.me
        me2 == IF others /= {}
               THEN CHOOSE x \in others : \A y \in others : y <= x
               ELSE me1
    IN [s EXCEPT !.servers = [x \in new |-> IF x \in old THEN s.servers[x]
                                            ELSE NewServer(s)],
                 !.me = me2]

\* The index of the newest RAFT_SERVERS entry in the log, or 0.
LastServersIndex(s) ==
    LET idx == {i \in s.log_start..(log_end(s) - 1) : Entry(s, i).type = RAFT_SERVERS}
    IN IF idx = {} THEN 0 ELSE CHOOSE i \in idx : \A j \in idx : j <= i

raft_get_servers_from_log(s) ==
    IF LastServersIndex(s) /= 0
    THEN raft_set_servers(s, Entry(s, LastServersIndex(s)).data)
    ELSE raft_set_servers(s, s.prev_servers)

\* raft_truncate changes only the in-memory log; the caller sees whether a
\* RAFT_SERVERS entry was removed.
TruncateChangesServers(s, new_end) ==
    \E i \in new_end..(log_end(s) - 1) : Entry(s, i).type = RAFT_SERVERS

raft_truncate(s, new_end) ==
    IF new_end < s.log_start THEN [s EXCEPT !.role = Aborted]
    ELSE [s EXCEPT !.log = SubSeq(@, 1, Min(Len(@), new_end - s.log_start))]

raft_add_entry(s, term, type, data) ==
    [s EXCEPT !.log = Append(@, [term |-> term, type |-> type, data |-> data])]

(***************************************************************************)
(* Opening a server: raft_alloc, then raft_read folds the records of the   *)
(* file into the in-memory state, then raft_open looks up "me".  A record  *)
(* the code rejects makes raft_open fail: the server does not run.         *)
(***************************************************************************)
raft_alloc(sid, snap, file, synced) ==
    [sid |-> sid, role |-> Follower, current_term |-> 0, voted_for |-> None,
     log_start |-> 1, log |-> <<>>, prev_term |-> 0, prev_servers |-> {},
     commit_index |-> 0, last_applied |-> 0,
     servers |-> [x \in {} |-> 0], me |-> None, leader |-> None, n_votes |-> 0,
     vote_waiter |-> FALSE, timer |-> TRUE, waiters |-> <<>>, commands |-> {},
     snapshot |-> <<>>, snapshot_len |-> 0, snapshot_buf |-> <<>>,
     add_servers |-> [x \in {} |-> 0], remove_server |-> None,
     fsync_next |-> 0, fsync_cur |-> 0,
     snap |-> snap, file |-> file, synced |-> synced]

OpenError(s) == [s EXCEPT !.role = Aborted]

parse_log_record(s0, rec) ==
    LET s == IF rec.term > s0.current_term
             THEN [s0 EXCEPT !.current_term = rec.term, !.voted_for = None]
             ELSE s0
    IN IF rec.kind = "state"
       THEN IF rec.vote = None THEN s
            ELSE IF s.voted_for = None THEN [s EXCEPT !.voted_for = rec.vote]
            ELSE IF s.voted_for /= rec.vote THEN OpenError(s)
            ELSE s
       ELSE IF rec.index > log_end(s) THEN OpenError(s)
       ELSE LET t == IF rec.index < log_end(s) THEN raft_truncate(s, rec.index) ELSE s
            IN IF t.role = Aborted THEN t
               ELSE IF rec.term < LastTerm(t) THEN OpenError(t)
               ELSE raft_add_entry(t, rec.term, rec.type, rec.data)

RECURSIVE ReadRecords(_, _, _)
ReadRecords(s, file, k) ==
    IF k > Len(file) \/ s.role = Aborted THEN s
    ELSE ReadRecords(parse_log_record(s, file[k]), file, k + 1)

raft_read(s0) ==
    LET s1 == [s0 EXCEPT !.prev_term = s0.snap.prev_term,
                         !.log_start = s0.snap.prev_index + 1,
                         !.commit_index = s0.snap.prev_index,
                         !.last_applied = s0.snap.prev_index,
                         !.prev_servers = s0.snap.prev_servers,
                         !.snapshot = s0.snap.data,
                         !.snapshot_len = BytesLen(s0.snap.data)]
        s2 == ReadRecords(s1, s1.file, 1)
    IN IF s2.role = Aborted THEN s2 ELSE raft_get_servers_from_log(s2)

raft_open(sid, snap, file, synced) ==
    LET s == raft_read(raft_alloc(sid, snap, file, synced))
    IN IF s.role = Aborted THEN s
       ELSE IF sid \notin DOMAIN s.servers THEN OpenError(s)
       ELSE [s EXCEPT !.me = sid]

\* What a restart would recover if power failed now: the replay of the
\* records that a completed fsync covers.
Durable(s) == raft_read(raft_alloc(s.sid, s.snap, SubSeq(s.file, 1, s.synced), s.synced))

(***************************************************************************)
(* RPCs.  "from" is the sender (common.sid as the receiver sees it), "to"  *)
(* the destination.  raft_send drops an RPC addressed to the local server. *)
(***************************************************************************)
raft_send(c, m) == IF m.to = c.s.sid THEN c ELSE [c EXCEPT !.out = @ \cup {m}]

VoteRequest(s, to) ==
    [type |-> "vote_request", from |-> s.sid, to |-> to, term |-> s.current_term,
     last_log_index |-> log_end(s) - 1, last_log_term |-> LastTerm(s)]

raft_send_vote_reply(c, dst, vote_granted) ==
    raft_send(c, [type |-> "vote_reply", from |-> c.s.sid, to |-> dst,
                  term |-> c.s.current_term, vote_granted |-> vote_granted])

\* prev_log_term and the entries are read from the log array; NextInLog says
\* whether the reads stay inside it.
NextInLog(s, peer, n) == Peer(s, peer).next_index - 1 < log_end(s)

AppendRequest(s, peer, n, prev_log_term) ==
    LET next == Peer(s, peer).next_index
    IN [type |-> "append_request", from |-> s.sid, to |-> peer,
        term |-> s.current_term,
        prev_log_index |-> next - 1,
        prev_log_term |-> prev_log_term,
        leader_commit |-> s.commit_index,
        entries |-> SubSeq(s.log, next - s.log_start + 1, next - s.log_start + n)]

PrevLogTerm(s, peer) ==
    IF Peer(s, peer).next_index - 1 >= s.log_start
    THEN Entry(s, Peer(s, peer).next_index - 1).term
    ELSE s.prev_term

\* ovs_assert(raft->leader == raft->me), then raft->me is dereferenced.  When
\* next_index - 1 is at or past log_end, prev_log_term is read outside the
\* log: the process dies or the read yields some term.
raft_send_append_request(c, peer, n) ==
    IF c.s.me = None \/ c.s.leader /= c.s.me THEN Abort(c)
    ELSE IF NextInLog(c.s, peer, n)
    THEN raft_send(c, AppendRequest(c.s, peer, n, PrevLogTerm(c.s, peer)))
    ELSE IF c.ub < 0 THEN Abort([c EXCEPT !.ubhit = TRUE])
    ELSE raft_send([c EXCEPT !.ubhit = TRUE], AppendRequest(c.s, peer, 0, c.ub))

RECURSIVE SendAppendRequests(_, _, _)
SendAppendRequests(c, peers, n) ==
    IF peers = {} \/ ~Live(c) THEN c
    ELSE LET p == CHOOSE x \in peers : \A y \in peers : x <= y
         IN SendAppendRequests(raft_send_append_request(c, p, n), peers \ {p}, n)

raft_send_heartbeats(c) == SendAppendRequests(c, DOMAIN c.s.servers \ {c.s.me}, 0)

(***************************************************************************)
(* Terms, roles and elections.                                             *)
(***************************************************************************)
raft_reset_timer(s) == [s EXCEPT !.timer = TRUE]

\* The state record is written and the write's outcome ignored; nothing
\* waits for the record to reach the disk.
raft_set_term(c, term, vote) ==
    Upd(c, [raft_write_state(c.s, term, vote, c.ok)
               EXCEPT !.current_term = term, !.voted_for = vote])

raft_complete_all_commands(c, status) ==
    [c EXCEPT !.s.commands = {},
              !.ev = @ \cup {[ev |-> "command", index |-> i, status |-> status,
                              term |-> c.s.current_term] : i \in c.s.commands}]

\* The RPC type is that of an AddServer reply whatever the request was.
raft_send_server_reply(c, sid, status) ==
    raft_send(c, [type |-> "add_server_reply", from |-> c.s.sid, to |-> sid,
                  status |-> status])

\* HMAP_FOR_EACH (s, hmap_node, &raft->add_servers): a reply to s->sid.
RECURSIVE ReplyToAddServers(_, _, _)
ReplyToAddServers(c, adds, status) ==
    IF adds = {} THEN c
    ELSE LET a == CHOOSE x \in adds : \A y \in adds : x <= y
         IN ReplyToAddServers(raft_send_server_reply(c, a, status),
                              adds \ {a}, status)

raft_become_follower(c) ==
    IF c.s.role = Follower THEN c
    ELSE LET c1 == Upd(c, raft_reset_timer([c.s EXCEPT !.role = Follower]))
             c2 == ReplyToAddServers(c1, DOMAIN c1.s.add_servers, "lost_leadership")
             c3 == IF c2.s.remove_server = None THEN c2
                   ELSE [raft_send_server_reply(c2, c2.s.remove_server.reply_sid,
                                                "lost_leadership")
                            EXCEPT !.s.remove_server = None]
         IN raft_complete_all_commands(c3, "lost_leadership")

raft_become_leader(c) ==
    IF c.s.role = Leader THEN Abort(c)
    ELSE LET s1 == [c.s EXCEPT !.role = Leader, !.leader = c.s.me, !.timer = FALSE]
             s2 == [s1 EXCEPT !.servers = [x \in DOMAIN s1.servers |->
                                   raft_server_init_leader(s1, s1.servers[x])]]
         IN raft_send_heartbeats(
                Emit(Upd(c, s2), [ev |-> "leader", term |-> s2.current_term]))

\* TRUE when the caller should go on with the RPC.
TermIsCurrent(s, term) == term >= s.current_term

\* The slip of adopting a newer term in the role the server is in.
raft_receive_term_keeps_role(c, term) ==
    IF term > c.s.current_term THEN raft_set_term(c, term, None) ELSE c

raft_receive_term__(c, term) ==
    IF term > c.s.current_term
    THEN raft_become_follower(raft_set_term(c, term, None))
    ELSE c

\* A NULL server (me after it was removed from the set) is dereferenced.
raft_accept_vote(c, x, granted) ==
    IF x = None THEN Abort(c)
    ELSE IF c.s.servers[x].voted THEN c
    ELSE LET c1 == [c EXCEPT !.s.servers[x].voted = TRUE]
         IN IF ~granted THEN c1
            ELSE LET c2 == [c1 EXCEPT !.s.n_votes = @ + 1]
                 IN IF c2.s.n_votes > Cardinality(DOMAIN c2.s.servers) \div 2
                    THEN raft_become_leader(c2)
                    ELSE c2

raft_start_election(c) ==
    IF c.s.role = Leader \/ c.s.commands /= {} THEN Abort(c)
    ELSE LET c1 == raft_set_term(Upd(c, [c.s EXCEPT !.role = Candidate]),
                                 c.s.current_term + 1, c.s.sid)
             s2 == raft_reset_timer(
                       [c1.s EXCEPT !.n_votes = 0,
                                    !.servers = [x \in DOMAIN c1.s.servers |->
                                        [c1.s.servers[x] EXCEPT !.voted = FALSE]]])
             c2 == [c1 EXCEPT !.s = s2,
                              !.out = @ \cup {VoteRequest(s2, p) :
                                        p \in DOMAIN s2.servers \ {s2.me, s2.sid}}]
         IN raft_accept_vote(c2, s2.me, TRUE)

(***************************************************************************)
(* Waiters and the fsync handshake.                                        *)
(***************************************************************************)
Waiter(type, seqno) ==
    [type |-> type, fsync_seqno |-> seqno, index |-> 0, from |-> None,
     prev_log_index |-> 0, prev_log_term |-> 0, n_entries |-> 0,
     leader_commit |-> 0]

\* seqno = ++fsync_next; the waiter goes to the back of the list.
raft_waiter_create(s, w) ==
    [s EXCEPT !.fsync_next = @ + 1,
              !.waiters = Append(@, [w EXCEPT !.fsync_seqno = s.fsync_next + 1])]

\* One round of raft_fsync_thread that finds work: ovsdb_log_commit covers
\* every record written so far; fsync_cur is published only on success.
raft_fsync_thread(s, ok) ==
    IF s.fsync_cur = s.fsync_next \/ ~ok THEN s
    ELSE [s EXCEPT !.synced = Len(s.file), !.fsync_cur = s.fsync_next]

(***************************************************************************)
(* RequestVote.                                                            *)
(***************************************************************************)
LogIsMoreUpToDate(s, rq) ==
    \/ LastTerm(s) > rq.last_log_term
    \/ LastTerm(s) = rq.last_log_term /\ log_end(s) - 1 > rq.last_log_index

\* vote_waiter is set when the vote is recorded and never cleared.
raft_handle_vote_request(c0, rq) ==
    IF ~TermIsCurrent(c0.s, rq.term) THEN raft_send_vote_reply(c0, rq.from, FALSE)
    ELSE LET c == raft_receive_term__(c0, rq.term)
         IN IF c.s.vote_waiter THEN c
            ELSE IF c.s.voted_for = rq.from THEN raft_send_vote_reply(c, rq.from, TRUE)
            ELSE IF c.s.voted_for /= None THEN raft_send_vote_reply(c, rq.from, FALSE)
            ELSE IF LogIsMoreUpToDate(c.s, rq) THEN raft_send_vote_reply(c, rq.from, FALSE)
            ELSE LET s1 == [c.s EXCEPT !.voted_for = rq.from]
                     s2 == raft_reset_timer(
                               raft_write_state(s1, s1.current_term, s1.voted_for, c.ok))
                 IN Upd(c, raft_waiter_create([s2 EXCEPT !.vote_waiter = TRUE],
                                              Waiter(RAFT_W_VOTE, 0)))

\* raft_find_peer: a server of the configuration other than "me".
raft_find_peer(s, sid) == IF sid \in DOMAIN s.servers /\ sid /= s.me THEN sid ELSE None

\* raft_find_new_server: a server being added.  The servers being added were
\* inserted under the hash of a zeroed sid; the map of one server has one
\* bucket, where the lookup finds it.
raft_find_new_server(s, sid) == IF sid \in DOMAIN s.add_servers THEN sid ELSE None

\* A peer, or else a server being added.
FindPeerOrNew(s, sid) ==
    IF raft_find_peer(s, sid) /= None THEN sid ELSE raft_find_new_server(s, sid)

raft_handle_vote_reply(c0, rpy) ==
    IF ~TermIsCurrent(c0.s, rpy.term) THEN c0
    ELSE LET c == raft_receive_term__(c0, rpy.term)
         IN IF c.s.role /= Candidate THEN c
            ELSE IF raft_find_peer(c.s, rpy.from) = None THEN c
            ELSE raft_accept_vote(c, rpy.from, rpy.vote_granted)

(***************************************************************************)
(* Commit and apply.                                                       *)
(***************************************************************************)
raft_command_complete(c, index, status) ==
    [c EXCEPT !.s.commands = @ \ {index},
              !.ev = @ \cup {[ev |-> "command", index |-> index, status |-> status,
                              term |-> c.s.current_term]}]

\* The entry is added and written.  After a failed write the code frees
\* &log[--log_end].data, which no allocation returned: the process dies of
\* it or goes on with the entry taken back.
raft_write_entry(c, term, type, data) ==
    LET s1 == raft_add_entry(c.s, term, type, data)
    IN IF c.ok
       THEN Upd(c, ovsdb_log_write(s1, EntryRec(log_end(s1) - 1, s1.log[Len(s1.log)]), TRUE))
       ELSE LET c1 == Emit(c, [ev |-> "write_error", term |-> c.s.current_term])
            IN IF c.ub < 0 THEN Abort([c1 EXCEPT !.ubhit = TRUE, !.ret = 0])
               ELSE [c1 EXCEPT !.ubhit = TRUE, !.ret = 0]

\* The peers whose next_index is log_end - 1 are sent the new entry, and
\* their next_index moves on.
RECURSIVE PipelineEntry(_, _)
PipelineEntry(c, peers) ==
    IF peers = {} \/ ~Live(c) THEN c
    ELSE LET p == CHOOSE x \in peers : \A y \in peers : x <= y
             c1 == IF c.s.servers[p].next_index = log_end(c.s) - 1
                   THEN LET c2 == raft_send_append_request(c, p, 1)
                        IN [c2 EXCEPT !.s.servers[p].next_index = @ + 1]
                   ELSE c
         IN PipelineEntry(c1, peers \ {p})

raft_command_execute__(c, type, data) ==
    LET index == log_end(c.s)
        c0 == [c EXCEPT !.s.commands = @ \cup {index}]
    IN IF c.s.role /= Leader THEN raft_command_complete(c0, index, "not_leader")
       ELSE LET c1 == raft_write_entry(c0, c.s.current_term, type, data)
                c2 == IF c.ok /\ Live(c1)
                      THEN Upd(c1, raft_waiter_create(
                                       c1.s, [Waiter(RAFT_W_COMMAND, 0) EXCEPT !.index = index]))
                      ELSE c1
            IN PipelineEntry(c2, DOMAIN c2.s.servers \ {c2.s.me})

\* The driver that never waits for a configuration change to commit.
raft_has_uncommitted_configuration_never(s) == FALSE

\* A RAFT_SERVERS entry above commit_index; the loop asserts that each index
\* it visits is at or above log_start.
raft_has_uncommitted_configuration(s) ==
    \E i \in (s.commit_index + 1)..(log_end(s) - 1) : Entry(s, i).type = RAFT_SERVERS

\* The servers in a phase, lowest id first as the model fixes the order of
\* the hash map.
InPhase(servers, phase) == {x \in DOMAIN servers : servers[x].phase = phase}

RECURSIVE ReplyToCommitted(_, _)
ReplyToCommitted(c, xs) ==
    IF xs = {} THEN c
    ELSE LET x == CHOOSE a \in xs : \A b \in xs : a <= b
             c1 == raft_send_server_reply(c, c.s.servers[x].reply_sid, "ok")
         IN ReplyToCommitted([c1 EXCEPT !.s.servers[x].phase = RAFT_PHASE_STABLE],
                             xs \ {x})

\* The caller is the leader, or the assertion fails.  Nothing happens while
\* a configuration change is uncommitted.  Then the servers whose addition
\* committed are answered, then the removal that committed; then one server
\* that caught up joins the configuration and the new configuration is
\* appended to the log, or else one server in phase REMOVE leaves it.
raft_run_reconfigure(c) ==
    IF c.s.role /= Leader THEN Abort(c)
    ELSE IF c.s.commit_index + 1 < c.s.log_start /\ c.s.commit_index + 1 < log_end(c.s)
    THEN Abort(Emit(c, [ev |-> "assert", what |-> "uncommitted_index"]))
    ELSE IF raft_has_uncommitted_configuration(c.s) THEN c
    ELSE LET c1 == ReplyToCommitted(c, InPhase(c.s.servers, RAFT_PHASE_COMMITTING))
             c2 == IF c1.s.remove_server = None THEN c1
                   ELSE [raft_send_server_reply(c1, c1.s.remove_server.reply_sid, "ok")
                            EXCEPT !.s.remove_server = None]
             caught == InPhase(c2.s.add_servers, RAFT_PHASE_CAUGHT_UP)
             leaving == InPhase(c2.s.servers, RAFT_PHASE_REMOVE)
         IN IF caught /= {}
            THEN LET x == CHOOSE a \in caught : \A b \in caught : a <= b
                     s3 == [c2.s EXCEPT
                              !.servers = (x :> [c2.s.add_servers[x] EXCEPT
                                                    !.phase = RAFT_PHASE_COMMITTING]) @@ @,
                              !.add_servers = [y \in DOMAIN @ \ {x} |-> @[y]]]
                 IN raft_command_execute__(Upd(c2, s3), RAFT_SERVERS, DOMAIN s3.servers)
            ELSE IF leaving /= {}
            THEN LET x == CHOOSE a \in leaving : \A b \in leaving : a <= b
                 IN [c2 EXCEPT !.s.remove_server =
                                   [sid |-> x, reply_sid |-> c2.s.servers[x].reply_sid],
                               !.s.servers = [y \in DOMAIN @ \ {x} |-> @[y]]]
            ELSE c2

\* while (commit_index > last_applied): the two assertions, then the entry
\* is applied.
RECURSIVE ApplyCommitted(_)
ApplyCommitted(c) ==
    IF ~Live(c) \/ c.s.commit_index <= c.s.last_applied THEN c
    ELSE LET n == c.s.last_applied + 1
             c1 == [c EXCEPT !.s.last_applied = n]
         IN IF n < c.s.log_start \/ n >= log_end(c.s)
            THEN Abort(Emit(c1, [ev |-> "assert", what |-> "last_applied"]))
            ELSE LET e == Entry(c.s, n)
                     c2 == Emit(c1, [ev |-> "apply", index |-> n, entry |-> e])
                 IN ApplyCommitted(
                        IF c.s.role /= Leader THEN c2
                        ELSE IF e.type = RAFT_SERVERS THEN raft_run_reconfigure(c2)
                        ELSE IF n \in c.s.commands
                             THEN raft_command_complete(c2, n, "success")
                             ELSE c2)

\* ovs_assert(new_commit_index >= raft->commit_index) comes first.
raft_update_commit_index(c, new_commit_index) ==
    IF new_commit_index < c.s.commit_index
    THEN Abort(Emit(c, [ev |-> "assert", what |-> "commit_index"]))
    ELSE ApplyCommitted(
             Emit([c EXCEPT !.s.commit_index = new_commit_index],
                  [ev |-> "commit", index |-> new_commit_index,
                   role |-> c.s.role, term |-> c.s.current_term]))

MatchCount(s, n) == Cardinality({x \in DOMAIN s.servers : s.servers[x].match_index >= n})

\* The slip of counting the servers for an entry of whatever term.
EntryOfAnyTerm(s, n) == TRUE

\* raft->log[n - raft->log_start].term == raft->current_term
EntryOfCurrentTerm(s, n) == Entry(s, n).term = s.current_term

\* for (n = MAX(commit_index + 1, log_start); n < log_end; n++)
RECURSIVE CommitLoop(_, _)
CommitLoop(c, n) ==
    IF ~Live(c) \/ n >= log_end(c.s) THEN c
    ELSE IF EntryOfCurrentTerm(c.s, n)
            /\ MatchCount(c.s, n) > Cardinality(DOMAIN c.s.servers) \div 2
         THEN CommitLoop(raft_update_commit_index(c, n), n + 1)
         ELSE CommitLoop(c, n + 1)

\* The slip of recording the match_index and leaving commit_index alone.
raft_update_match_index_only(c, x, min_index) ==
    IF x = None THEN Abort(c)
    ELSE IF Peer(c.s, x).match_index >= min_index THEN c
    ELSE SetPeer(c, x, [Peer(c.s, x) EXCEPT !.match_index = min_index])

raft_update_match_index(c, x, min_index) ==
    IF x = None THEN Abort(c)
    ELSE IF Peer(c.s, x).match_index >= min_index THEN c
    ELSE CommitLoop(SetPeer(c, x, [Peer(c.s, x) EXCEPT !.match_index = min_index]),
                    Max(c.s.commit_index + 1, c.s.log_start))

(***************************************************************************)
(* AppendEntries on the receiving side.                                    *)
(***************************************************************************)
RECURSIVE WriteEntries(_, _, _)
WriteEntries(c, entries, i) ==
    IF i > Len(entries) \/ ~Live(c) \/ ~c.ok THEN c
    ELSE WriteEntries(raft_write_entry(c, entries[i].term, entries[i].type,
                                       entries[i].data), entries, i + 1)

\* The slip of looking for the index only, whatever the term stored there.
PrevMatchesIndex(s, prev_log_index, prev_log_term) ==
    prev_log_index >= s.log_start - 1 /\ prev_log_index < log_end(s)

\* TRUE when the log has an entry at prev_log_index with term prev_log_term.
PrevMatches(s, prev_log_index, prev_log_term) ==
    IF prev_log_index < s.log_start - 1 THEN FALSE
    ELSE IF prev_log_index = s.log_start - 1 THEN prev_log_term = s.prev_term
    ELSE IF prev_log_index < log_end(s) THEN Entry(s, prev_log_index).term = prev_log_term
    ELSE FALSE

\* The slip of comparing no entry with the log.
NoSameTermPrefix(s, prev_log_index, entries, i) == i

\* How many leading entries are already in the log with the same term.
RECURSIVE SameTermPrefix(_, _, _, _)
SameTermPrefix(s, prev_log_index, entries, i) ==
    IF i >= Len(entries) THEN i
    ELSE IF prev_log_index + 1 + i >= log_end(s) THEN i
    ELSE IF Entry(s, prev_log_index + 1 + i).term /= entries[i + 1].term THEN i
    ELSE SameTermPrefix(s, prev_log_index, entries, i + 1)

HasServers(entries) == \E k \in 1..Len(entries) : entries[k].type = RAFT_SERVERS

\* ret: 0 for false, 1 for true, -1 when the reply waits for the fsync.
raft_handle_append_entries(c, rq, prev_log_index, prev_log_term, entries) ==
    IF ~PrevMatches(c.s, prev_log_index, prev_log_term) THEN [c EXCEPT !.ret = 0]
    ELSE LET i == SameTermPrefix(c.s, prev_log_index, entries, 0)
             log_index == prev_log_index + 1 + i
         IN IF i >= Len(entries) THEN [c EXCEPT !.ret = 1]
            ELSE LET cut == log_index < log_end(c.s)
                     rest == SubSeq(entries, i + 1, Len(entries))
                     c1 == IF cut THEN Upd(c, raft_truncate(c.s, log_index)) ELSE c
                     c2 == IF c.ok THEN WriteEntries(c1, rest, 1)
                           ELSE raft_write_entry(c1, rest[1].term, rest[1].type,
                                                 rest[1].data)
                     servers_changed ==
                         \/ cut /\ TruncateChangesServers(c.s, log_index)
                         \/ c.ok /\ HasServers(rest)
                     c3 == IF servers_changed /\ Live(c2)
                           THEN Upd(c2, raft_get_servers_from_log(c2.s))
                           ELSE c2
                 IN IF ~Live(c3) THEN c3
                    ELSE IF ~c.ok THEN [c3 EXCEPT !.ret = 0]
                    ELSE [c3 EXCEPT !.ret = -1,
                                    !.s = raft_waiter_create(c3.s,
                                        [Waiter(RAFT_W_APPEND, 0) EXCEPT
                                            !.from = rq.from,
                                            !.prev_log_index = rq.prev_log_index,
                                            !.prev_log_term = rq.prev_log_term,
                                            !.n_entries = Len(rq.entries),
                                            !.leader_commit = rq.leader_commit])]

\* "rq" holds the fields of the request the reply echoes.
raft_send_append_reply(c, rq, success) ==
    LET c1 == IF success /\ rq.leader_commit > c.s.commit_index
              THEN raft_update_commit_index(
                       c, Min(rq.leader_commit, rq.prev_log_index + rq.n_entries))
              ELSE c
    IN IF ~Live(c1) THEN c1
       ELSE raft_send(c1, [type |-> "append_reply", from |-> c1.s.sid, to |-> rq.from,
                           term |-> c1.s.current_term, log_end |-> log_end(c1.s),
                           prev_log_index |-> rq.prev_log_index,
                           prev_log_term |-> rq.prev_log_term,
                           n_entries |-> rq.n_entries, success |-> success])

raft_handle_append_request__(c0, rq) ==
    IF ~TermIsCurrent(c0.s, rq.term) THEN [c0 EXCEPT !.ret = 0]
    ELSE LET c1 == raft_receive_term__(c0, rq.term)
             c == Upd(c1, raft_reset_timer(c1.s))
             n == Len(rq.entries)
             first_entry_index == rq.prev_log_index + 1
             nth_entry_index == rq.prev_log_index + n
             ofs == c.s.log_start - first_entry_index
         IN IF first_entry_index >= c.s.log_start
            THEN raft_handle_append_entries(c, rq, rq.prev_log_index,
                                            rq.prev_log_term, rq.entries)
            ELSE IF nth_entry_index < c.s.log_start - 1 THEN [c EXCEPT !.ret = 1]
            ELSE IF nth_entry_index = c.s.log_start - 1
            THEN [c EXCEPT !.ret =
                     IF (IF n > 0 THEN c.s.prev_term = rq.entries[n].term
                         ELSE c.s.prev_term = rq.prev_log_term) THEN 1 ELSE 0]
            ELSE raft_handle_append_entries(c, rq, c.s.log_start - 1,
                                            rq.entries[ofs].term,
                                            SubSeq(rq.entries, ofs + 1, n))

RequestEcho(rq) ==
    [from |-> rq.from, prev_log_index |-> rq.prev_log_index,
     prev_log_term |-> rq.prev_log_term, n_entries |-> Len(rq.entries),
     leader_commit |-> rq.leader_commit]

raft_handle_append_request(c0, rq) ==
    LET c == raft_handle_append_request__(c0, rq)
    IN IF ~Live(c) \/ c.ret < 0 THEN c
       ELSE raft_send_append_reply(c, RequestEcho(rq), c.ret = 1)

(***************************************************************************)
(* raft_waiters_run: the waiters whose seqno fsync_cur has reached are     *)
(* completed in list order.                                                *)
(***************************************************************************)
\* The slip of taking a waiter off the list without doing what it waits for.
raft_waiter_dropped(c, w) == c

raft_waiter_complete(c, w) ==
    IF w.type = RAFT_W_COMMAND
    THEN raft_update_match_index(
             Emit(c, [ev |-> "fired", index |-> w.index, role |-> c.s.role,
                      term |-> c.s.current_term,
                      since |-> IF w.index \in c.s.log_start..(log_end(c.s) - 1)
                                THEN Entry(c.s, w.index).term ELSE 0]),
             c.s.me, w.index)
    ELSE IF w.type = RAFT_W_APPEND
    THEN raft_send_append_reply(
             c, [from |-> w.from, prev_log_index |-> w.prev_log_index,
                 prev_log_term |-> w.prev_log_term, n_entries |-> w.n_entries,
                 leader_commit |-> w.leader_commit], TRUE)
    ELSE IF c.s.voted_for /= None /\ c.s.voted_for /= c.s.sid
    THEN raft_send_vote_reply(c, c.s.voted_for, TRUE)
    ELSE c

RECURSIVE CompleteWaiters(_, _)
CompleteWaiters(c, cur) ==
    IF ~Live(c) \/ c.s.waiters = <<>> \/ cur < Head(c.s.waiters).fsync_seqno THEN c
    ELSE LET c1 == raft_waiter_complete(c, Head(c.s.waiters))
         IN CompleteWaiters([c1 EXCEPT !.s.waiters = Tail(c1.s.waiters)], cur)

raft_waiters_run(c) == CompleteWaiters(c, c.s.fsync_cur)

(***************************************************************************)
(* The leader's side: replies, snapshots, commands.                        *)
(***************************************************************************)
MAX_CHUNK == 4096

\* The data of the cluster holds one character of three bytes, where the
\* first chunk would end; its second and third byte are continuation bytes.
Continuation == {MAX_CHUNK - 1, MAX_CHUNK}

utf8_is_continuation_byte(b, p) ==
    LET byte == Take(Drop(b, p), 1)
    IN byte /= <<>> /\ byte[1][1] \in Continuation

\* The chunk is pulled back to the start of a character; -1 when the
\* assertion fails that it is pulled back by 16 bytes at most.
RECURSIVE ChunkBoundary(_, _, _)
ChunkBoundary(s, offset, chunk) ==
    IF ~utf8_is_continuation_byte(s.snapshot, offset + chunk) THEN chunk
    ELSE IF chunk < MAX_CHUNK - 16 THEN -1
    ELSE ChunkBoundary(s, offset, chunk - 1)

raft_calculate_snapshot_chunk(s, offset) ==
    IF offset >= s.snapshot_len THEN 0
    ELSE IF s.snapshot_len - offset <= MAX_CHUNK THEN s.snapshot_len - offset
    ELSE ChunkBoundary(s, offset, MAX_CHUNK)

raft_send_install_snapshot_request(c, peer, offset) ==
    LET chunk == raft_calculate_snapshot_chunk(c.s, offset)
    IN IF chunk < 0 THEN Abort(c)
       ELSE raft_send(c, [type |-> "install_snapshot_request", from |-> c.s.sid,
                          to |-> peer, term |-> c.s.current_term,
                          last_index |-> c.s.log_start - 1,
                          last_term |-> c.s.prev_term,
                          last_servers |-> c.s.prev_servers,
                          length |-> c.s.snapshot_len, offset |-> offset,
                          data |-> Take(Drop(c.s.snapshot, offset), chunk),
                          chunk |-> chunk])

raft_handle_append_reply(c0, rpy) ==
    IF ~TermIsCurrent(c0.s, rpy.term) THEN c0
    ELSE LET c == raft_receive_term__(c0, rpy.term)
             x == FindPeerOrNew(c.s, rpy.from)
         IN IF c.s.role /= Leader \/ x = None THEN c
            ELSE LET min_index == rpy.prev_log_index + rpy.n_entries + 1
                     next == Peer(c.s, x).next_index
                     c1 == IF rpy.success
                           THEN raft_update_match_index(
                                    SetPeer(c, x, [Peer(c.s, x) EXCEPT
                                                      !.next_index = Max(next, min_index)]),
                                    x, min_index - 1)
                           ELSE IF next > 0
                           THEN SetPeer(c, x, [Peer(c.s, x) EXCEPT
                                                  !.next_index = Min(next - 1, rpy.log_end)])
                           ELSE c
                 IN IF ~Live(c1) THEN c1
                    ELSE IF Peer(c1.s, x).next_index < c1.s.log_start
                    THEN raft_send_install_snapshot_request(c1, x, 0)
                    ELSE IF Peer(c1.s, x).next_index < log_end(c1.s)
                    THEN raft_send_append_request(c1, x, 1)
                    ELSE IF Peer(c1.s, x).phase = RAFT_PHASE_CATCHUP
                    THEN raft_run_reconfigure(
                             SetPeer(c1, x, [Peer(c1.s, x) EXCEPT
                                                !.phase = RAFT_PHASE_CAUGHT_UP]))
                    ELSE c1

\* No server of the model is in phase REMOVE when it is asked for.  The new
\* server starts in phase CATCHUP and is sent the log from log_end on.
raft_handle_add_server_request(c, rq) ==
    IF c.s.role /= Leader THEN raft_send_server_reply(c, rq.from, "not_leader")
    ELSE IF rq.sid \in DOMAIN c.s.servers /\ c.s.servers[rq.sid].phase = RAFT_PHASE_REMOVE
    THEN raft_send_server_reply(
             raft_send_server_reply(
                 [c EXCEPT !.s.servers[rq.sid].phase = RAFT_PHASE_STABLE],
                 c.s.servers[rq.sid].reply_sid, "canceled"),
             rq.from, "ok")
    ELSE IF rq.sid \in DOMAIN c.s.servers
    THEN raft_send_server_reply(
             c, rq.from,
             IF c.s.servers[rq.sid].phase /= RAFT_PHASE_STABLE THEN "in_progress"
             ELSE "no_op")
    ELSE IF c.s.remove_server /= None /\ c.s.remove_server.sid = rq.sid
    THEN raft_send_server_reply(c, rq.from, "committing")
    ELSE IF raft_find_new_server(c.s, rq.sid) /= None
    THEN raft_send_server_reply(c, rq.from, "in_progress")
    ELSE LET srv == [NewServer(c.s) EXCEPT !.voted = FALSE, !.reply_sid = rq.from,
                                           !.phase = RAFT_PHASE_CATCHUP]
         IN raft_send_append_request(
                [c EXCEPT !.s.add_servers = (rq.sid :> srv) @@ @], rq.sid, 0)

(***************************************************************************)
(* InstallSnapshot.                                                        *)
(***************************************************************************)
LogRecords(s) == [k \in 1..Len(s.log) |-> EntryRec(s.log_start + k - 1, s.log[k])]

\* The file is replaced by the snapshot, the log and the term and vote.  The
\* replacement takes the place of the old file only when every write
\* succeeded, and is then on disk.
raft_save_snapshot(s, ok) ==
    IF ~ok THEN s
    ELSE LET file == Append(LogRecords(s), StateRec(s.current_term, s.voted_for))
         IN [s EXCEPT !.snap = [prev_index |-> s.log_start - 1,
                                prev_term |-> s.prev_term,
                                prev_servers |-> s.prev_servers,
                                data |-> s.snapshot],
                      !.file = file, !.synced = Len(file)]

\* The chunk is put at the end of the buffer whatever the buffer holds.
ReceiveChunkAnywhere(buf, rq) == Concat(Take(buf, rq.offset), Take(rq.data, rq.chunk))

\* The buffer is cut back to the offset of the chunk, and the chunk is put
\* at its end when the buffer reaches the offset.
ReceiveChunk(buf, rq) ==
    LET cut == Take(buf, rq.offset)
    IN IF BytesLen(cut) = rq.offset THEN Concat(cut, Take(rq.data, rq.chunk)) ELSE cut

raft_handle_install_snapshot_request__(c0, rq) ==
    IF ~TermIsCurrent(c0.s, rq.term) THEN c0
    ELSE LET c == raft_receive_term__(c0, rq.term)
             s1 == raft_reset_timer(c.s)
             buf == ReceiveChunk(s1.snapshot_buf, rq)
             s2 == [s1 EXCEPT !.snapshot_buf = buf]
             new_log_start == rq.last_index + 1
         IN IF BytesLen(buf) /= rq.length \/ new_log_start < s2.log_start
            THEN Upd(c, s2)
            ELSE LET s3 == IF new_log_start >= log_end(s2)
                           THEN [s2 EXCEPT !.log_start = new_log_start, !.log = <<>>]
                           ELSE [s2 EXCEPT !.log_start = new_log_start,
                                           !.log = SubSeq(@, new_log_start - s2.log_start + 1,
                                                          Len(@))]
                     s4 == [s3 EXCEPT !.commit_index = s3.log_start - 1,
                                      !.last_applied = Max(@, s3.log_start - 1),
                                      !.prev_term = rq.last_term,
                                      !.prev_servers = rq.last_servers,
                                      !.snapshot_len = BytesLen(buf),
                                      !.snapshot = buf,
                                      !.snapshot_buf = <<>>]
                 IN Emit(Upd(c, raft_save_snapshot(s4, c.ok)),
                         [ev |-> "install", from |-> rq.from,
                          last_index |-> rq.last_index, last_term |-> rq.last_term])

raft_handle_install_snapshot_request(c0, rq) ==
    LET c == raft_handle_install_snapshot_request__(c0, rq)
    IN raft_send(c, [type |-> "install_snapshot_reply", from |-> c.s.sid, to |-> rq.from,
                     term |-> c.s.current_term, last_index |-> rq.last_index,
                     last_term |-> rq.last_term, next_offset |-> rq.offset + rq.chunk])

raft_handle_install_snapshot_reply(c0, rpy) ==
    IF ~TermIsCurrent(c0.s, rpy.term) THEN c0
    ELSE LET c == raft_receive_term__(c0, rpy.term)
             x == FindPeerOrNew(c.s, rpy.from)
         IN IF x = None THEN c
            ELSE IF rpy.last_index /= c.s.log_start - 1 \/ rpy.last_term /= c.s.prev_term
            THEN raft_send_install_snapshot_request(c, x, 0)
            ELSE IF rpy.next_offset < c.s.snapshot_len
            THEN raft_send_install_snapshot_request(c, x, rpy.next_offset)
            ELSE raft_send_append_request(
                     SetPeer(c, x, [Peer(c.s, x) EXCEPT !.next_index = log_end(c.s)]),
                     x, 0)

(***************************************************************************)
(* History.  Every RPC is stamped, when it is sent, with what the sender's *)
(* disk holds at that moment: the term and vote a restart after a power    *)
(* failure would recover (dterm, dvote), and whether the entries an        *)
(* AppendEntries reply acknowledges would be recovered (dack); and with    *)
(* the vote the sender holds in memory (cvote).                            *)
(***************************************************************************)
DurablyHolds(s, d, index) ==
    \A k \in s.log_start..Min(index, log_end(s) - 1) :
        /\ d.role /= Aborted
        /\ k >= d.log_start /\ k < log_end(d)
        /\ Entry(d, k) = Entry(s, k)

Stamp(m, s) ==
    LET d == Durable(s)
    IN m @@ [dterm |-> d.current_term, dvote |-> d.voted_for,
             cvote |-> s.voted_for,
             dack |-> IF m.type = "append_reply" /\ m.success
                      THEN DurablyHolds(s, d, m.prev_log_index + m.n_entries)
                      ELSE TRUE]

Events(c, kind) == {e \in c.ev : e.ev = kind}

Track(h, i, c) ==
    [h EXCEPT
       !.leaders = @ \cup {<<i, e.term>> : e \in Events(c, "leader")},
       !.applied = @ \cup {[sid |-> i, index |-> e.index, entry |-> e.entry] :
                           e \in Events(c, "apply")},
       !.committed = @ \cup
           UNION {{[index |-> k, entry |-> Entry(c.s, k), term |-> e.term] :
                      k \in c.s.log_start..Min(e.index, log_end(c.s) - 1)} :
                  e \in {x \in Events(c, "commit") : x.role = Leader}},
       !.votes = @ \cup (IF c.s.voted_for = None THEN {}
                         ELSE {<<i, c.s.current_term, c.s.voted_for>>}),
       !.completed = @ \cup {[sid |-> i, index |-> e.index, status |-> e.status] :
                             e \in Events(c, "command")},
       !.installed = @ \cup {[sid |-> i, from |-> e.from, last_index |-> e.last_index,
                               last_term |-> e.last_term, data |-> c.s.snapshot] :
                              e \in Events(c, "install")},
       !.write_errors = @ \cup {<<i, e.term>> : e \in Events(c, "write_error")},
       !.fired = @ \cup {<<i, e.index, e.term, e.role>> :
                            e \in {x \in Events(c, "fired") :
                                      x.role /= Leader \/ x.term /= x.since}},
       !.asserts = @ \cup {<<i, e.what>> : e \in Events(c, "assert")}]

\* The step of server i ends: its state, the RPCs it sent and the history
\* (h is the history with the step's budget taken off).
After(w, i, c) ==
    [raft |-> [w.raft EXCEPT ![i] = c.s],
     msgs |-> w.msgs \cup {Stamp(m, c.s) : m \in c.out},
     hist |-> Track(w.hist, i, c)]

Finish(i, c, h) ==
    LET w == After([raft |-> raft, msgs |-> msgs, hist |-> h], i, c)
    IN /\ raft' = w.raft
       /\ msgs' = w.msgs
       /\ hist' = w.hist
       /\ UNCHANGED fs

\* -1, or a term: what a read outside the log can yield.
UBOutcomes == -1..MaxReplTerm

(***************************************************************************)
(* The initial state: the cluster of raft_create on server 1, joined by    *)
(* the other servers in term 1, every server then stopped and opened       *)
(* again.                                                                  *)
(***************************************************************************)
InitSnap == [prev_index |-> 1, prev_term |-> 0, prev_servers |-> {1}, data |-> <<>>]

\* Server k + 1 joined with the entry of index k + 1.
InitEntries(n) ==
    [k \in 1..(n - 1) |->
        EntryRec(k + 1, [term |-> 1, type |-> RAFT_SERVERS, data |-> 1..(k + 1)])]

InitFile(i, n) ==
    IF i = 1 THEN <<StateRec(0, None), StateRec(1, 1)>> \o InitEntries(n)
    ELSE <<StateRec(1, None)>> \o InitEntries(n)

InitRaft(n) ==
    [i \in 1..n |-> raft_open(i, InitSnap, InitFile(i, n), Len(InitFile(i, n)))]

InitWorld(n) ==
    [raft |-> InitRaft(n), msgs |-> {},
     hist |-> [leaders |-> {}, applied |-> {}, committed |-> {},
               votes |-> {<<i, InitRaft(n)[i].current_term, InitRaft(n)[i].voted_for>> :
                             i \in {j \in 1..n : InitRaft(n)[j].voted_for /= None}},
               completed |-> {}, installed |-> {}, asserts |-> {}, write_errors |-> {},
               fired |-> {},
               ncrash |-> 0,
               ncmd |-> 0, nchunk |-> 0,
               nhb |-> 0, nfail |-> 0, nadd |-> 0]]

Init ==
    /\ raft = InitWorld(NServers).raft
    /\ msgs = InitWorld(NServers).msgs
    /\ hist = InitWorld(NServers).hist
    /\ fs = 0
    /\ done = 0

(***************************************************************************)
(* Actions.  A server that is not running takes no step but a restart.     *)
(***************************************************************************)
Running(i) == raft[i].role /= Aborted

\* raft_run finds the election timer expired.
Timeout(i, ok, max_term) ==
    /\ Running(i) /\ raft[i].timer
    /\ raft[i].current_term < max_term
    /\ Finish(i, raft_start_election(Ctx(raft[i], ok, -1)), hist)

\* The step of server i that ends in context c.  An undefined operation
\* has the outcome u; u is -1 when the step meets none.
FinishUB(i, c, h, u) == (u = -1 \/ c.ubhit) /\ Finish(i, c, h)

\* raft_run finds the ping timer expired, at most max times.
Ping(i, max) ==
    /\ Running(i) /\ raft[i].role = Leader
    /\ hist.nhb < max
    /\ \E u \in UBOutcomes :
           FinishUB(i, raft_send_heartbeats(Ctx(raft[i], TRUE, u)),
                    [hist EXCEPT !.nhb = @ + 1], u)

Heartbeat(i) == Ping(i, MaxHeartbeats)

\* The server that asks to join, which is none of the cluster.
Joiner == NServers + 1

\* An AddServer request for the joiner reaches server i, from the joiner
\* itself or from a member that passes it on; at most max of them do.
\* The members that would be left without the target.
RemainingMembers(s, target) ==
    {x \in DOMAIN s.servers : x /= target /\ s.servers[x].phase /= RAFT_PHASE_REMOVE}

\* "Mark the server for removal" stores the phase and the reply_sid through
\* "s", the variable of the loop that has just ended, which is the
\* container of a null hmap_node, never through "target": the process dies
\* of the store, or the store is lost and the driver runs.
raft_mark_for_removal(c, rq) ==
    IF c.ub < 0 THEN Abort([c EXCEPT !.ubhit = TRUE])
    ELSE raft_run_reconfigure([c EXCEPT !.ubhit = TRUE])

raft_handle_remove_server_request(c, rq) ==
    IF c.s.role /= Leader THEN raft_send_server_reply(c, rq.from, "not_leader")
    ELSE IF raft_find_new_server(c.s, rq.sid) /= None
    THEN raft_send_server_reply(
             raft_send_server_reply(
                 [c EXCEPT !.s.add_servers = [y \in DOMAIN @ \ {rq.sid} |-> @[y]]],
                 c.s.add_servers[rq.sid].reply_sid, "canceled"),
             rq.from, "ok")
    ELSE IF rq.sid \notin DOMAIN c.s.servers
    THEN raft_send_server_reply(c, rq.from, "no_op")
    ELSE IF c.s.servers[rq.sid].phase = RAFT_PHASE_COMMITTING
    THEN raft_send_server_reply(c, rq.from, "committing")
    ELSE IF c.s.servers[rq.sid].phase = RAFT_PHASE_REMOVE
    THEN raft_send_server_reply(c, rq.from, "in_progress")
    ELSE IF RemainingMembers(c.s, rq.sid) = {}
    THEN raft_send_server_reply(c, rq.from, "empty")
    ELSE raft_mark_for_removal(c, rq)

AddServerRequestArrives(i, max) ==
    /\ Running(i)
    /\ hist.nadd < max
    /\ \E o \in (Server \ {i}) \cup {Joiner} :
           Finish(i, raft_handle_add_server_request(
                         Ctx(raft[i], TRUE, -1), [from |-> o, sid |-> Joiner]),
                  [hist EXCEPT !.nadd = @ + 1])

HandleAddServerRequest(i) == AddServerRequestArrives(i, MaxAdds)

\* raft_run_session hands a received RPC to raft_handle_rpc, which calls the
\* handler of its type.  The RPC leaves the network.
Receive(i, m, type) == Running(i) /\ m.to = i /\ m.type = type

Handled(i, m, c, u) ==
    /\ u = -1 \/ c.ubhit
    /\ raft' = [raft EXCEPT ![i] = c.s]
    /\ msgs' = (msgs \ {m}) \cup {Stamp(x, c.s) : x \in c.out}
    /\ hist' = Track(hist, i, c)
    /\ UNCHANGED fs

HandleVoteRequest(i, ok) ==
    \E m \in msgs :
        /\ Receive(i, m, "vote_request")
        /\ Handled(i, m, raft_handle_vote_request(Ctx(raft[i], ok, -1), m), -1)

\* The same, when the store fails the writes of the step: the handler
\* ignores the error of raft_write_state and waits for the fsync all the same.
HandleVoteRequestStoreFails(i) ==
    /\ hist.nfail < MaxWriteFails
    /\ \E m \in msgs :
           LET c == raft_handle_vote_request(Ctx(raft[i], FALSE, -1), m)
           IN /\ Receive(i, m, "vote_request")
              /\ c.s.vote_waiter /\ ~raft[i].vote_waiter
              /\ raft' = [raft EXCEPT ![i] = c.s]
              /\ msgs' = (msgs \ {m}) \cup {Stamp(x, c.s) : x \in c.out}
              /\ hist' = [Track(hist, i, c) EXCEPT !.nfail = @ + 1]
              /\ UNCHANGED fs

HandleVoteReply(i, ok) ==
    \E m \in msgs :
        /\ Receive(i, m, "vote_reply")
        /\ Handled(i, m, raft_handle_vote_reply(Ctx(raft[i], ok, -1), m), -1)

HandleAppendRequest(i, ok) ==
    \E m \in msgs :
        /\ Receive(i, m, "append_request")
        /\ \E u \in UBOutcomes :
               Handled(i, m, raft_handle_append_request(Ctx(raft[i], ok, u), m), u)

HandleAppendReply(i, ok) ==
    \E m \in msgs :
        /\ Receive(i, m, "append_reply")
        /\ \E u \in UBOutcomes :
               Handled(i, m, raft_handle_append_reply(Ctx(raft[i], ok, u), m), u)

HandleRemoveServerRequest(i) ==
    \E m \in msgs :
        /\ Receive(i, m, "remove_server_request")
        /\ \E u \in UBOutcomes :
               Handled(i, m, raft_handle_remove_server_request(Ctx(raft[i], TRUE, u), m), u)

HandleInstallSnapshotRequest(i, ok) ==
    \E m \in msgs :
        /\ Receive(i, m, "install_snapshot_request")
        /\ Handled(i, m, raft_handle_install_snapshot_request(Ctx(raft[i], ok, -1), m), -1)

HandleInstallSnapshotReply(i, ok) ==
    \E m \in msgs :
        /\ Receive(i, m, "install_snapshot_reply")
        /\ \E u \in UBOutcomes :
               Handled(i, m, raft_handle_install_snapshot_reply(Ctx(raft[i], ok, u), m), u)

\* raft_run starts with raft_waiters_run.
WaitersRun(i) ==
    /\ Running(i) /\ raft[i].waiters /= <<>>
    /\ raft[i].fsync_cur >= Head(raft[i].waiters).fsync_seqno
    /\ Finish(i, raft_waiters_run(Ctx(raft[i], TRUE, -1)), hist)

\* One round of the fsync thread that commits the file.
FsyncThread(i, ok) ==
    /\ Running(i) /\ raft[i].fsync_cur /= raft[i].fsync_next
    /\ raft' = [raft EXCEPT ![i] = raft_fsync_thread(raft[i], ok)]
    /\ UNCHANGED <<msgs, hist, fs>>

\* The client calls raft_command_execute; the data of the command is its
\* number.
ExecuteUpTo(i, ok, max) ==
    /\ Running(i)
    /\ hist.ncmd < max
    /\ \E u \in UBOutcomes :
           FinishUB(i, raft_command_execute__(Ctx(raft[i], ok, u), RAFT_DATA,
                                              hist.ncmd + 1),
                    [hist EXCEPT !.ncmd = @ + 1], u)

Execute(i, ok) == ExecuteUpTo(i, ok, MaxCmds)

\* The store fails the write of the leader's entry.
ExecuteStoreFails(i) ==
    /\ raft[i].role = Leader
    /\ hist.nfail < MaxWriteFails
    /\ Running(i)
    /\ hist.ncmd < MaxCmds
    /\ \E u \in UBOutcomes :
           FinishUB(i, raft_command_execute__(Ctx(raft[i], FALSE, u), RAFT_DATA,
                                              hist.ncmd + 1),
                    [hist EXCEPT !.ncmd = @ + 1, !.nfail = @ + 1], u)

\* The process stops (or the machine loses power: of the records no fsync
\* covers, only the first k - synced survive) and raft_open runs again.
Restarted(w, i, k) ==
    LET s == raft_open(i, w.raft[i].snap, SubSeq(w.raft[i].file, 1, k),
                       IF k = Len(w.raft[i].file) THEN w.raft[i].synced ELSE k)
    IN [w EXCEPT !.raft[i] = s,
                 !.hist = [Track(w.hist, i, Ctx(s, TRUE, -1)) EXCEPT !.ncrash = @ + 1]]

Crash(i, k) ==
    LET w == Restarted([raft |-> raft, msgs |-> msgs, hist |-> hist], i, k)
    IN raft' = w.raft /\ hist' = w.hist /\ UNCHANGED <<msgs, fs>>

\* The process stops and starts again: the file is whole.
Restart(i) == Crash(i, Len(raft[i].file))

\* The machine loses power and starts again: of the records that no fsync
\* covers, some prefix survives, but not all of them.
PowerLoss(i) == \E k \in raft[i].synced..(Len(raft[i].file) - 1) : Crash(i, k)

(***************************************************************************)
(* Schedules.  A specification can fix the first steps of its behaviours:  *)
(* step number done + 1 is then the action and the server that the         *)
(* schedule names (the RPC it handles and what a power loss leaves are not *)
(* fixed), and after the schedule any action among "free" can be taken.    *)
(***************************************************************************)
Sched(schedule, free, a, i) ==
    /\ IF done < Len(schedule) THEN schedule[done + 1] = <<a, i>> ELSE a \in free
    /\ done' = IF done < Len(schedule) THEN done + 1 ELSE done

Unscheduled == UNCHANGED done

\* Elections with crashes, three servers.
Next ==
    \/ \E i \in Server : Unscheduled /\ Timeout(i, TRUE, MaxTerm)
    \/ \E i \in Server : Unscheduled /\ HandleVoteRequest(i, TRUE)
    \/ \E i \in Server : Unscheduled /\ HandleVoteReply(i, TRUE)
    \/ \E i \in Server : Unscheduled /\ WaitersRun(i)
    \/ \E i \in Server : Unscheduled /\ FsyncThread(i, TRUE)
    \/ \E i \in Server : Unscheduled /\ hist.ncrash < MaxCrash /\ Restart(i)
    \/ \E i \in Server : Unscheduled /\ hist.ncrash < MaxCrash /\ PowerLoss(i)

Spec == Init /\ [][Next]_vars

\* Elections over a store that can fail a write.
NextStore ==
    \/ \E i \in Server : Unscheduled /\ Timeout(i, TRUE, MaxTerm)
    \/ \E i \in Server : Unscheduled /\ HandleVoteRequest(i, TRUE)
    \/ \E i \in Server : Unscheduled /\ HandleVoteRequestStoreFails(i)
    \/ \E i \in Server : Unscheduled /\ HandleVoteReply(i, TRUE)
    \/ \E i \in Server : Unscheduled /\ WaitersRun(i)
    \/ \E i \in Server : Unscheduled /\ FsyncThread(i, TRUE)

SpecStore == Init /\ [][NextStore]_vars

(***************************************************************************)
(* Replication in a cluster of two servers.  Server 1 first wins the       *)
(* election of term 2 with the vote of server 2.                           *)
(***************************************************************************)
InitRepl ==
    /\ raft = InitWorld(NReplServers).raft
    /\ msgs = InitWorld(NReplServers).msgs
    /\ hist = InitWorld(NReplServers).hist
    /\ fs = 0
    /\ done = 0

ElectSchedule ==
    << <<"Timeout", 1>>, <<"HandleVoteRequest", 2>>, <<"FsyncThread", 2>>,
       <<"WaitersRun", 2>>, <<"HandleVoteReply", 1>> >>

ReplFree ==
    {"Execute", "HandleAppendRequest", "HandleAppendReply", "Heartbeat",
     "WaitersRun", "FsyncThread"}

Repl(a, i) == Sched(ElectSchedule, ReplFree, a, i)

NextRepl ==
    \/ \E i \in Server : Repl("Timeout", i) /\ Timeout(i, TRUE, MaxTerm)
    \/ \E i \in Server : Repl("HandleVoteRequest", i) /\ HandleVoteRequest(i, TRUE)
    \/ \E i \in Server : Repl("HandleVoteReply", i) /\ HandleVoteReply(i, TRUE)
    \/ \E i \in Server : Repl("Execute", i) /\ Execute(i, TRUE)
    \/ \E i \in Server : Repl("HandleAppendRequest", i) /\ HandleAppendRequest(i, TRUE)
    \/ \E i \in Server : Repl("HandleAppendReply", i) /\ HandleAppendReply(i, TRUE)
    \/ \E i \in Server : Repl("Heartbeat", i) /\ Heartbeat(i)
    \/ \E i \in Server : Repl("WaitersRun", i) /\ WaitersRun(i)
    \/ \E i \in Server : Repl("FsyncThread", i) /\ FsyncThread(i, TRUE)

SpecRepl == InitRepl /\ [][NextRepl]_vars

(***************************************************************************)
(* Recovery.  The leader of term 2 appends a command and sends it to       *)
(* server 2, which appends it.  Then both machines stop: the process of    *)
(* server 2 starts again with its file whole, server 1 loses power and     *)
(* with it records that no fsync had covered, its term and its vote among  *)
(* them.  Server 1 times out and asks for a vote again, and server 2       *)
(* answers from what its file says.                                        *)
(***************************************************************************)
RecoverSchedule ==
    ElectSchedule \o
    << <<"Execute", 1>>, <<"HandleAppendRequest", 2>>,
       <<"HandleAppendRequest", 2>>, <<"Restart", 2>>, <<"PowerLoss", 1>>,
       <<"Timeout", 1>>, <<"HandleVoteRequest", 2>>, <<"HandleVoteReply", 1>> >>

RecoverFree ==
    {"Execute", "HandleAppendRequest", "HandleAppendReply", "Heartbeat",
     "WaitersRun", "FsyncThread", "Timeout", "HandleVoteRequest",
     "HandleVoteReply"}

Recover(a, i) == Sched(RecoverSchedule, RecoverFree, a, i)

NextRecover ==
    \/ \E i \in Server : Recover("Timeout", i) /\ Timeout(i, TRUE, MaxReplTerm)
    \/ \E i \in Server : Recover("HandleVoteRequest", i) /\ HandleVoteRequest(i, TRUE)
    \/ \E i \in Server : Recover("HandleVoteReply", i) /\ HandleVoteReply(i, TRUE)
    \/ \E i \in Server : Recover("Execute", i) /\ Execute(i, TRUE)
    \/ \E i \in Server : Recover("HandleAppendRequest", i) /\ HandleAppendRequest(i, TRUE)
    \/ \E i \in Server : Recover("HandleAppendReply", i) /\ HandleAppendReply(i, TRUE)
    \/ \E i \in Server : Recover("Heartbeat", i) /\ Heartbeat(i)
    \/ \E i \in Server : Recover("WaitersRun", i) /\ WaitersRun(i)
    \/ \E i \in Server : Recover("FsyncThread", i) /\ FsyncThread(i, TRUE)
    \/ \E i \in Server : Recover("Restart", i) /\ Restart(i)
    \/ \E i \in Server : Recover("PowerLoss", i) /\ PowerLoss(i)

SpecRecover == InitRepl /\ [][NextRecover]_vars

(***************************************************************************)
(* An acknowledged entry is lost, in a cluster of three servers.  The      *)
(* leader of term 2 appends a command and sends it to server 2; a          *)
(* heartbeat follows it.  The leader commits the command on the replies of *)
(* server 2, server 2 loses power, and elections go on.                    *)
(***************************************************************************)
LostSchedule ==
    ElectSchedule \o
    << <<"Execute", 1>>, <<"HandleAppendRequest", 2>>,
       <<"HandleAppendRequest", 2>>, <<"Heartbeat", 1>>,
       <<"HandleAppendRequest", 2>>, <<"HandleAppendReply", 1>>,
       <<"HandleAppendReply", 1>>, <<"FsyncThread", 1>>, <<"WaitersRun", 1>>,
       <<"PowerLoss", 2>> >>

LostFree ==
    {"Timeout", "HandleVoteRequest", "HandleVoteReply", "FsyncThread",
     "WaitersRun"}

Lost(a, i) == Sched(LostSchedule, LostFree, a, i)

NextLost ==
    \/ \E i \in Server : Lost("Timeout", i) /\ Timeout(i, TRUE, MaxReplTerm)
    \/ \E i \in Server : Lost("HandleVoteRequest", i) /\ HandleVoteRequest(i, TRUE)
    \/ \E i \in Server : Lost("HandleVoteReply", i) /\ HandleVoteReply(i, TRUE)
    \/ \E i \in Server : Lost("Execute", i) /\ Execute(i, TRUE)
    \/ \E i \in Server : Lost("HandleAppendRequest", i) /\ HandleAppendRequest(i, TRUE)
    \/ \E i \in Server : Lost("HandleAppendReply", i) /\ HandleAppendReply(i, TRUE)
    \/ \E i \in Server : Lost("Heartbeat", i) /\ Heartbeat(i)
    \/ \E i \in Server : Lost("WaitersRun", i) /\ WaitersRun(i)
    \/ \E i \in Server : Lost("FsyncThread", i) /\ FsyncThread(i, TRUE)
    \/ \E i \in Server : Lost("PowerLoss", i) /\ PowerLoss(i)

SpecLost == Init /\ [][NextLost]_vars

(***************************************************************************)
(* The fsync handshake, step by step, in a cluster of one server.  The     *)
(* main task and raft_fsync_thread share the file, fsync_next and          *)
(* fsync_cur (the counters under fsync_mutex).  A handler of the main task *)
(* takes two steps here, its writes and then the rest with the creation of *)
(* its waiter, and a round of the thread takes one step per access.  fs is *)
(* the thread's position and locals, and the bookkeeping of the property:  *)
(*   written   the length of the file before the writes of the handler     *)
(*             under way, -1 when there is none;                           *)
(*   issued    issued[s] is the number of writes issued before the waiter  *)
(*             of seqno s was created;                                     *)
(*   start     the number of writes issued when the commit under way       *)
(*             started;                                                    *)
(*   covered   the greatest such number among the commits that succeeded;  *)
(*   fails     how many commits failed.                                    *)
(***************************************************************************)
InitFsync ==
    /\ raft = InitWorld(1).raft
    /\ msgs = InitWorld(1).msgs
    /\ hist = InitWorld(1).hist
    /\ fs = [pc |-> "seq", request_seq |-> 0, next |-> 0, cur |-> 0,
             written |-> -1, issued |-> <<>>, start |-> 0, covered |-> 0,
             fails |-> 0, seq |-> 0, close |-> "open", at |-> ""]
    /\ done = 0

\* The main task is between two calls, and raft_close has not been called.
MainIdle == fs.written = -1 /\ fs.close = "open" /\ UNCHANGED done

\* raft_command_execute__ up to the return of raft_write_entry.
ExecuteWrites(i) ==
    /\ Running(i) /\ fs.written = -1 /\ fs.close = "open"
    /\ hist.ncmd < MaxCmds
    /\ LET c == raft_command_execute__(Ctx(raft[i], TRUE, -1), RAFT_DATA,
                                       hist.ncmd + 1)
       IN raft' = [raft EXCEPT ![i].file = c.s.file]
    /\ fs' = [fs EXCEPT !.written = Len(raft[i].file)]
    /\ UNCHANGED <<msgs, hist, done>>

\* The slip of leaving the request seq as it is.
seq_unchanged(t, n) == t

\* seq_change(raft->fsync_request), n times.
seq_change(t, n) == [t EXCEPT !.seq = @ + n]

\* The rest of raft_command_execute__, raft_waiter_create included.
ExecuteCreatesWaiter(i) ==
    /\ fs.written >= 0
    /\ LET s0 == [raft[i] EXCEPT !.file = SubSeq(@, 1, fs.written)]
           c == raft_command_execute__(Ctx(s0, TRUE, -1), RAFT_DATA,
                                       hist.ncmd + 1)
           w == After([raft |-> raft, msgs |-> msgs,
                       hist |-> [hist EXCEPT !.ncmd = @ + 1]], i, c)
       IN /\ raft' = w.raft
          /\ msgs' = w.msgs
          /\ hist' = w.hist
          /\ fs' = [seq_change(fs, c.s.fsync_next - raft[i].fsync_next) EXCEPT
                      !.written = -1,
                      !.issued = @ \o [k \in 1..(c.s.fsync_next - raft[i].fsync_next)
                                          |-> Len(c.s.file)]]
    /\ UNCHANGED done

\* request_seq = seq_read(raft->fsync_request).
FsyncSeqRead(i) ==
    /\ fs.pc = "seq"
    /\ fs' = [fs EXCEPT !.request_seq = fs.seq, !.pc = "read"]
    /\ UNCHANGED <<raft, msgs, hist, done>>

\* next = raft->fsync_next; cur = raft->fsync_cur, under the mutex; the
\* loop ends when next is the sentinel.
FsyncRead(i) ==
    /\ fs.pc = "read"
    /\ fs' = [fs EXCEPT !.next = raft[i].fsync_next, !.cur = raft[i].fsync_cur,
                        !.pc = IF raft[i].fsync_next = UINT64_MAX THEN "exit"
                               ELSE IF raft[i].fsync_cur /= raft[i].fsync_next
                               THEN "commit" ELSE "wait"]
    /\ UNCHANGED <<raft, msgs, hist, done>>

\* ovsdb_log_commit starts.
FsyncCommitStarts(i) ==
    /\ fs.pc = "commit"
    /\ fs' = [fs EXCEPT !.start = Len(raft[i].file), !.pc = "sync"]
    /\ UNCHANGED <<raft, msgs, hist, done>>

\* ovsdb_log_commit returns without error: it covers the records written
\* before it started, and maybe records written since.
FsyncCommitEnds(i) ==
    /\ fs.pc = "sync"
    /\ \E k \in fs.start..Len(raft[i].file) :
           raft' = [raft EXCEPT ![i].synced = Max(@, k)]
    /\ fs' = [fs EXCEPT !.covered = Max(@, fs.start), !.pc = "publish"]
    /\ UNCHANGED <<msgs, hist, done>>

\* ovsdb_log_commit returns an error: the round only logs it.
FsyncCommitFails(i) ==
    /\ fs.pc = "sync"
    /\ fs.fails < MaxCommitFails
    /\ fs' = [fs EXCEPT !.fails = @ + 1, !.pc = "wait"]
    /\ UNCHANGED <<raft, msgs, hist, done>>

\* The slip of publishing the counter as it is now, not as the round read it
\* before the commit.
fsync_publish_current(s, t) == [s EXCEPT !.fsync_cur = s.fsync_next]

\* raft->fsync_cur = next, under the mutex.
fsync_publish(s, t) == [s EXCEPT !.fsync_cur = t.next]

FsyncPublish(i) ==
    /\ fs.pc = "publish"
    /\ raft' = [raft EXCEPT ![i] = fsync_publish(raft[i], fs)]
    /\ fs' = [fs EXCEPT !.pc = "wait"]
    /\ UNCHANGED <<msgs, hist, done>>

\* seq_wait(raft->fsync_request, request_seq); poll_block() returns once
\* the seq is no longer request_seq.
FsyncWakes(i) ==
    /\ fs.pc = "wait"
    /\ fs.seq /= fs.request_seq
    /\ fs' = [fs EXCEPT !.pc = "seq"]
    /\ UNCHANGED <<raft, msgs, hist, done>>

NextFsync ==
    \/ \E i \in Server : MainIdle /\ Timeout(i, TRUE, MaxTerm)
    \/ \E i \in Server : MainIdle /\ WaitersRun(i)
    \/ \E i \in Server : ExecuteWrites(i)
    \/ \E i \in Server : ExecuteCreatesWaiter(i)
    \/ \E i \in Server : FsyncSeqRead(i)
    \/ \E i \in Server : FsyncRead(i)
    \/ \E i \in Server : FsyncCommitStarts(i)
    \/ \E i \in Server : FsyncCommitEnds(i)
    \/ \E i \in Server : FsyncCommitFails(i)
    \/ \E i \in Server : FsyncPublish(i)
    \/ \E i \in Server : FsyncWakes(i)

SpecFsync == InitFsync /\ [][NextFsync]_vars

(***************************************************************************)
(* Elections, terms and votes, checked under Spec.                         *)
(***************************************************************************)

\* C1 (Election Safety): no two distinct servers ever become leader for the
\* same term, crashes and replays included.
ElectionSafety ==
    \A a \in hist.leaders : \A b \in hist.leaders : a[2] = b[2] => a[1] = b[1]

\* C7: no RPC carrying term t leaves a server before a completed fsync
\* covers the record that sets its persisted current_term to t and, for the
\* VoteRequest of a candidate, voted_for to the candidate itself.
TermPersistedBeforeSend ==
    \A m \in msgs :
        /\ m.dterm >= m.term
        /\ m.type = "vote_request" => m.dvote = m.from

\* C9 (I2): within one term a server holds at most one vote: voted_for never
\* names two different servers for the same term, across crash and replay.
SingleVotePerTerm ==
    \A a \in hist.votes : \A b \in hist.votes :
        a[1] = b[1] /\ a[2] = b[2] => a[3] = b[3]

\* C10 (I1): current_term of a server never decreases, a crash followed by
\* a replay of its file included.
TermNeverDecreases ==
    [][\A i \in Server : raft'[i].current_term >= raft[i].current_term]_vars

\* C6: a VoteReply that grants the vote of term t to candidate C is sent
\* only once a completed fsync covers the record (t, voted_for = C) of the
\* voter, and when it is sent voted_for of the voter is C.  Checked under
\* SpecStore.
VoteDurableBeforeGrant ==
    \A m \in msgs :
        m.type = "vote_reply" /\ m.vote_granted
            => m.dterm = m.term /\ m.dvote = m.to /\ m.cvote = m.to

(***************************************************************************)
(* Replication, checked under SpecRepl.                                    *)
(***************************************************************************)

\* C5: a follower sends an AppendReply with success = true only once a
\* completed fsync covers every entry the reply acknowledges, all indices
\* up to prev_log_index + n_entries; a heartbeat that arrives while the
\* fsync of an earlier request is pending is no exception.
AppendReplyAfterFsync ==
    \A m \in msgs : m.type = "append_reply" /\ m.success => m.dack

(***************************************************************************)
(* The logs after a recovery, checked under SpecRecover.                   *)
(***************************************************************************)

\* C4 (Log Matching): for any two servers and any index in both logs, if
\* the entries at that index have the same term then they have the same
\* type and payload, and the terms at every earlier index in both logs are
\* equal.
LogMatching ==
    \A i \in Server : \A j \in Server :
        \A k \in Max(raft[i].log_start, raft[j].log_start)
                  ..Min(log_end(raft[i]), log_end(raft[j])) - 1 :
            Entry(raft[i], k).term = Entry(raft[j], k).term
                => /\ Entry(raft[i], k) = Entry(raft[j], k)
                   /\ \A n \in Max(raft[i].log_start, raft[j].log_start)..k :
                          Entry(raft[i], n).term = Entry(raft[j], n).term

\* C2 (State Machine Safety): no two servers apply different entries at
\* the same index.
StateMachineSafety ==
    \A a \in hist.applied : \A b \in hist.applied :
        a.index = b.index => a.entry = b.entry

\* C3 (Leader Completeness): once a leader has committed the entry at an
\* index, every server that is leader in a later term has at that index an
\* entry with the same term, or a snapshot that covers the index.
LeaderCompleteness ==
    \A e \in hist.committed : \A i \in Server :
        raft[i].role = Leader /\ raft[i].current_term > e.term
          /\ e.index >= raft[i].log_start
            => /\ e.index < log_end(raft[i])
               /\ Entry(raft[i], e.index).term = e.entry.term

(***************************************************************************)
(* The fsync handshake, checked under SpecFsync.                           *)
(***************************************************************************)
HandshakeState ==
    \A i \in Server :
        /\ raft[i].fsync_cur <= raft[i].fsync_next
        /\ \A n \in 1..raft[i].fsync_cur : fs.issued[n] <= fs.covered

HandshakeStep ==
    \A i \in Server :
        /\ raft'[i].fsync_cur >= raft[i].fsync_cur
        /\ \A k \in 1..(Len(raft[i].waiters) - Len(raft'[i].waiters)) :
               raft[i].waiters[k].fsync_seqno <= raft[i].fsync_cur
        /\ fs'.fails > fs.fails => raft'[i].fsync_cur = raft[i].fsync_cur

\* C8 (durability handshake): in every interleaving of the main task and
\* the fsync thread, a waiter of seqno s is completed only when
\* fsync_cur >= s; fsync_cur >= s implies that a commit that succeeded
\* started after every write issued before that waiter was created; a
\* commit that fails leaves fsync_cur as it is; fsync_cur never decreases
\* and never exceeds fsync_next.
DurabilityHandshake == []HandshakeState /\ [][HandshakeStep]_vars

\* A waiter created while a commit was under way stays pending after that
\* commit is published; an earlier waiter is complete and a commit failed.
DurabilityHandshakeWitness ==
    /\ fs.fails > 0
    /\ hist.completed /= {}
    /\ \E i \in Server :
           /\ raft[i].fsync_cur > 0
           /\ raft[i].fsync_cur < raft[i].fsync_next
           /\ fs.issued[raft[i].fsync_next] > fs.covered

(***************************************************************************)
(* Requests that arrive late, in a cluster of three servers.  The leader   *)
(* of term 2 appends two commands and commits each with server 2, then its *)
(* ping timer expires.  What it sent to server 3 meanwhile is still in     *)
(* flight: from there the servers handle the AppendEntries requests and    *)
(* replies in any order.                                                   *)
(***************************************************************************)
CommitSchedule ==
    << <<"Execute", 1>>, <<"HandleAppendRequest", 2>>, <<"FsyncThread", 2>>,
       <<"WaitersRun", 2>>, <<"FsyncThread", 1>>, <<"WaitersRun", 1>>,
       <<"HandleAppendReply", 1>> >>

LateSchedule ==
    ElectSchedule \o << <<"HandleAppendRequest", 2>>, <<"HandleAppendReply", 1>> >>
        \o CommitSchedule \o CommitSchedule \o << <<"Heartbeat", 1>> >>

LateFree == {"HandleAppendRequest", "HandleAppendReply", "WaitersRun", "FsyncThread"}

Late(a, i) == Sched(LateSchedule, LateFree, a, i)

NextLate ==
    \/ \E i \in Server : Late("Timeout", i) /\ Timeout(i, TRUE, MaxTerm)
    \/ \E i \in Server : Late("HandleVoteRequest", i) /\ HandleVoteRequest(i, TRUE)
    \/ \E i \in Server : Late("HandleVoteReply", i) /\ HandleVoteReply(i, TRUE)
    \/ \E i \in Server : Late("Execute", i) /\ Execute(i, TRUE)
    \/ \E i \in Server : Late("HandleAppendRequest", i) /\ HandleAppendRequest(i, TRUE)
    \/ \E i \in Server : Late("HandleAppendReply", i) /\ HandleAppendReply(i, TRUE)
    \/ \E i \in Server : Late("Heartbeat", i) /\ Heartbeat(i)
    \/ \E i \in Server : Late("WaitersRun", i) /\ WaitersRun(i)
    \/ \E i \in Server : Late("FsyncThread", i) /\ FsyncThread(i, TRUE)

SpecLate == Init /\ [][NextLate]_vars

(***************************************************************************)
(* The commit index, checked under SpecLate.                               *)
(***************************************************************************)
CommitAssertHolds == \A a \in hist.asserts : a[2] /= "commit_index"

CommitIndexStep ==
    \A i \in Server :
        hist'.ncrash = hist.ncrash /\ raft'[i].role /= Aborted
            => raft'[i].commit_index >= raft[i].commit_index

\* C11: commit_index never decreases on a running server: the assertion
\* new_commit_index >= commit_index of raft_update_commit_index holds for
\* every accepted AppendRequest, delayed ones included, and no step of a
\* server that keeps running lowers commit_index.
CommitIndexNeverDecreases == []CommitAssertHolds /\ [][CommitIndexStep]_vars

(***************************************************************************)
(* Stale failure replies, in a cluster of two servers.  The leader of term *)
(* 2 appends two commands, its ping timer expires after each, and its      *)
(* records reach the disk.  Server 2 handles three of the requests, in any *)
(* order, and from there the servers handle requests and replies in any    *)
(* order.  Every failure reply lowers next_index, below log_start in the   *)
(* end, and the leader sends its snapshot.                                 *)
(***************************************************************************)
SnapSchedule ==
    ElectSchedule \o
    << <<"Execute", 1>>, <<"Ping", 1>>, <<"Execute", 1>>, <<"Ping", 1>>,
       <<"FsyncThread", 1>>, <<"WaitersRun", 1>>,
       <<"HandleAppendRequest", 2>>, <<"HandleAppendRequest", 2>>,
       <<"HandleAppendRequest", 2>> >>

SnapFree ==
    {"HandleAppendRequest", "HandleAppendReply", "WaitersRun", "FsyncThread",
     "HandleInstallSnapshotRequest", "HandleInstallSnapshotReply"}

Snap(a, i) == Sched(SnapSchedule, SnapFree, a, i)

NextSnap ==
    \/ \E i \in Server : Snap("Timeout", i) /\ Timeout(i, TRUE, MaxTerm)
    \/ \E i \in Server : Snap("HandleVoteRequest", i) /\ HandleVoteRequest(i, TRUE)
    \/ \E i \in Server : Snap("HandleVoteReply", i) /\ HandleVoteReply(i, TRUE)
    \/ \E i \in Server : Snap("Execute", i) /\ Execute(i, TRUE)
    \/ \E i \in Server : Snap("Ping", i) /\ Ping(i, MaxLatePings)
    \/ \E i \in Server : Snap("HandleAppendRequest", i) /\ HandleAppendRequest(i, TRUE)
    \/ \E i \in Server : Snap("HandleAppendReply", i) /\ HandleAppendReply(i, TRUE)
    \/ \E i \in Server : Snap("HandleInstallSnapshotRequest", i)
                            /\ HandleInstallSnapshotRequest(i, TRUE)
    \/ \E i \in Server : Snap("HandleInstallSnapshotReply", i)
                            /\ HandleInstallSnapshotReply(i, TRUE)
    \/ \E i \in Server : Snap("WaitersRun", i) /\ WaitersRun(i)
    \/ \E i \in Server : Snap("FsyncThread", i) /\ FsyncThread(i, TRUE)

SpecSnap == InitRepl /\ [][NextSnap]_vars

CommitBounds ==
    \A i \in Server :
        Running(i) => /\ raft[i].last_applied <= raft[i].commit_index
                      /\ raft[i].commit_index <= log_end(raft[i]) - 1

ApplyAssertsHold == \A a \in hist.asserts : a[2] /= "last_applied"

\* C12: in every reachable state of every running server
\* last_applied <= commit_index <= log_end - 1, and the assertions on
\* last_applied in the apply loop never fail.
CommitIndexWithinLog == CommitBounds /\ ApplyAssertsHold

(***************************************************************************)
(* Two leaders of one term, in a cluster of three servers.  Server 1 leads *)
(* term 2 and appends a command; its process starts again and it wins term *)
(* 3 with the vote of server 3, whose store failed the write of that vote. *)
(* Server 3 starts again and gives the vote of term 3 to server 2, which   *)
(* appends a command of its own.  From there the two leaders and server 3  *)
(* handle the AppendEntries requests in flight in any order.               *)
(***************************************************************************)
SplitSchedule ==
    ElectSchedule \o
    << <<"Execute", 1>>, <<"Restart", 1>>, <<"Timeout", 1>>,
       <<"HandleVoteRequestStoreFails", 3>>, <<"FsyncThread", 3>>,
       <<"WaitersRun", 3>>, <<"HandleVoteReply", 1>>, <<"Restart", 3>>,
       <<"Timeout", 2>>, <<"HandleVoteRequest", 3>>, <<"FsyncThread", 3>>,
       <<"WaitersRun", 3>>, <<"HandleVoteReply", 2>>, <<"Execute", 2>> >>

SplitFree == {"HandleAppendRequest"}

Split(a, i) == Sched(SplitSchedule, SplitFree, a, i)

NextSplit ==
    \/ \E i \in Server : Split("Timeout", i) /\ Timeout(i, TRUE, MaxReplTerm)
    \/ \E i \in Server : Split("HandleVoteRequest", i) /\ HandleVoteRequest(i, TRUE)
    \/ \E i \in Server : Split("HandleVoteRequestStoreFails", i)
                            /\ HandleVoteRequestStoreFails(i)
    \/ \E i \in Server : Split("HandleVoteReply", i) /\ HandleVoteReply(i, TRUE)
    \/ \E i \in Server : Split("Execute", i) /\ Execute(i, TRUE)
    \/ \E i \in Server : Split("HandleAppendRequest", i) /\ HandleAppendRequest(i, TRUE)
    \/ \E i \in Server : Split("WaitersRun", i) /\ WaitersRun(i)
    \/ \E i \in Server : Split("FsyncThread", i) /\ FsyncThread(i, TRUE)
    \/ \E i \in Server : Split("Restart", i) /\ Restart(i)

SpecSplit == Init /\ [][NextSplit]_vars

(***************************************************************************)
(* The log of a leader, checked under SpecSplit.                           *)
(***************************************************************************)
IsPrefix(a, b) == Len(a) <= Len(b) /\ SubSeq(b, 1, Len(a)) = a

LeaderAppendOnlyStep ==
    \A i \in Server :
        /\ raft[i].role = Leader /\ raft'[i].role = Leader
        /\ raft'[i].current_term = raft[i].current_term
        /\ hist'.ncrash = hist.ncrash
        => /\ raft'[i].log_start = raft[i].log_start
           /\ IsPrefix(raft[i].log, raft'[i].log)

\* C13 (Leader Append-Only): while a server is Leader it never removes,
\* replaces or discards an entry of its log; the log changes only by
\* appending at log_end, whatever RPC of its own term it handles.
LeaderAppendOnly == [][LeaderAppendOnlyStep]_vars

(***************************************************************************)
(* The cluster where liveness is studied: one server alone, or the         *)
(* cluster of two.  Server 1 wins term 2 first and the client executes a   *)
(* command.  From then on "done" holds the number of steps taken and the   *)
(* last step, which tells the steps of the servers apart.  The main loop   *)
(* of every server keeps running (it handles the append RPCs that reached  *)
(* it and runs its waiters) and so does its fsync thread, whose commits    *)
(* succeed; no RPC is lost, but RPCs arrive in any order.  The ping timer  *)
(* is not bound to expire.                                                 *)
(***************************************************************************)
InitLive ==
    /\ \E n \in {1, NReplServers} :
           /\ raft = InitWorld(n).raft
           /\ msgs = InitWorld(n).msgs
           /\ hist = InitWorld(n).hist
    /\ fs = 0
    /\ done = <<0, "", None>>

LiveSchedule ==
    (IF Cardinality(Server) = 1 THEN << <<"Timeout", 1>> >> ELSE ElectSchedule)
        \o << <<"Execute", 1>> >>

LiveFree ==
    {"HandleAppendRequest", "HandleAppendReply", "Heartbeat", "WaitersRun",
     "FsyncThread"}

\* Server i takes step a: the next step of the schedule, or a free one when
\* the schedule is over.
Stamped(schedule, free, a, i) ==
    /\ IF done[1] < Len(schedule) THEN schedule[done[1] + 1] = <<a, i>>
       ELSE a \in free
    /\ done' = <<done[1] + 1, a, i>>

Live_(a, i) == Stamped(LiveSchedule, LiveFree, a, i)

LiveTimeout == \E i \in Server : Live_("Timeout", i) /\ Timeout(i, TRUE, MaxTerm)

LiveVoteRequest ==
    \E i \in Server : Live_("HandleVoteRequest", i) /\ HandleVoteRequest(i, TRUE)

LiveVoteReply ==
    \E i \in Server : Live_("HandleVoteReply", i) /\ HandleVoteReply(i, TRUE)

LiveExecute == \E i \in Server : Live_("Execute", i) /\ Execute(i, TRUE)

LiveAppendRequest ==
    \E i \in Server : Live_("HandleAppendRequest", i) /\ HandleAppendRequest(i, TRUE)

LiveAppendReply ==
    \E i \in Server : Live_("HandleAppendReply", i) /\ HandleAppendReply(i, TRUE)

LiveHeartbeat == \E i \in Server : Live_("Heartbeat", i) /\ Heartbeat(i)

LiveWaitersRun == \E i \in Server : Live_("WaitersRun", i) /\ WaitersRun(i)

LiveFsyncThread == \E i \in Server : Live_("FsyncThread", i) /\ FsyncThread(i, TRUE)

NextLive ==
    \/ LiveTimeout
    \/ LiveVoteRequest
    \/ LiveVoteReply
    \/ LiveExecute
    \/ LiveAppendRequest
    \/ LiveAppendReply
    \/ LiveHeartbeat
    \/ LiveWaitersRun
    \/ LiveFsyncThread

\* What server i has to do once the schedule is over: an RPC of a type
\* waits for it, its first waiter's commit is complete, or its fsync thread
\* has a commit to make.  A handler takes any RPC of its type, and each of
\* these steps changes the server or the network.
Waits(i, type) == \E m \in msgs : m.to = i /\ m.type = type

Pending(schedule, a, i) ==
    /\ done[1] >= Len(schedule) /\ i \in Server /\ Running(i)
    /\ \/ a = "HandleVoteRequest" /\ Waits(i, "vote_request")
       \/ a = "HandleVoteReply" /\ Waits(i, "vote_reply")
       \/ a = "HandleAppendRequest" /\ Waits(i, "append_request")
       \/ a = "HandleAppendReply" /\ Waits(i, "append_reply")
       \/ a = "HandleInstallSnapshotRequest" /\ Waits(i, "install_snapshot_request")
       \/ a = "HandleInstallSnapshotReply" /\ Waits(i, "install_snapshot_reply")
       \/ /\ a = "WaitersRun" /\ raft[i].waiters /= <<>>
          /\ raft[i].fsync_cur >= Head(raft[i].waiters).fsync_seqno
       \/ /\ a = "FsyncThread" /\ raft[i].fsync_cur /= raft[i].fsync_next

\* Server i takes the step a that is pending.
Takes(schedule, a, i) == Pending(schedule, a, i) /\ done' = <<done[1] + 1, a, i>>

LiveFair == {"HandleAppendRequest", "HandleAppendReply", "WaitersRun", "FsyncThread"}

SpecLive ==
    /\ InitLive /\ [][NextLive]_vars
    /\ \A a \in LiveFair : \A i \in 1..NReplServers : WF_done(Takes(LiveSchedule, a, i))

(***************************************************************************)
(* Commit liveness, checked under SpecLive.                                *)
(***************************************************************************)
\* The indexes a command can get.
CommandIndexes == 2..(NReplServers + MaxCmds)

Accepted(k) == \E i \in Server : raft[i].role = Leader /\ k \in raft[i].commands

Succeeded(k) ==
    \E i \in Server : [sid |-> i, index |-> k, status |-> "success"] \in hist.completed

\* The leader is gone, or no majority of the members runs.
NoQuorum ==
    \/ \A i \in Server : raft[i].role /= Leader
    \/ 2 * Cardinality({i \in Server : Running(i)}) <= Cardinality(Server)

\* An AppendEntries request that carries a commit index of k or more is on
\* its way to server j.
CommitAnnounced(k, j) ==
    \E m \in msgs : m.type = "append_request" /\ m.to = j /\ m.leader_commit >= k

Learned(k, j) == ~Running(j) \/ raft[j].commit_index >= k

Announced(k) == \A j \in Server : Learned(k, j) \/ CommitAnnounced(k, j)

AllLearned(k) == \A j \in Server : Learned(k, j)

\* In a cluster of one server nothing is sent, and a command that is not
\* complete waits for nothing but the fsync of its record.
AloneCommits ==
    Cardinality(Server) = 1 =>
        /\ msgs = {}
        /\ \A i \in Server : \A k \in raft[i].commands :
               \E n \in 1..Len(raft[i].waiters) :
                   /\ raft[i].waiters[n].type = RAFT_W_COMMAND
                   /\ raft[i].waiters[n].index = k

OldLeader == ElectSchedule[Len(ElectSchedule)][Len(ElectSchedule[Len(ElectSchedule)])]
\* The server that takes no part in that election.
Challenger == NServers

InitReelect ==
    /\ raft = InitWorld(NServers).raft
    /\ msgs = InitWorld(NServers).msgs
    /\ hist = InitWorld(NServers).hist
    /\ fs = 0
    /\ done = <<0, "", None>>

ReelectFree ==
    {"Timeout", "HandleVoteRequest", "HandleVoteReply", "HandleAppendRequest",
     "WaitersRun", "FsyncThread"}

ReelectFair == ReelectFree \ {"Timeout"}

Reelect(a, i) ==
    /\ Stamped(ElectSchedule, ReelectFree, a, i)
    /\ done[1] >= Len(ElectSchedule) => i /= OldLeader
    /\ done[1] >= Len(ElectSchedule) /\ a = "Timeout" => i = Challenger

ReelectTimeout ==
    \E i \in Server : Reelect("Timeout", i) /\ Timeout(i, TRUE, MaxReplTerm)

ReelectVoteRequest ==
    \E i \in Server : Reelect("HandleVoteRequest", i) /\ HandleVoteRequest(i, TRUE)

ReelectVoteReply ==
    \E i \in Server : Reelect("HandleVoteReply", i) /\ HandleVoteReply(i, TRUE)

ReelectAppendRequest ==
    \E i \in Server : Reelect("HandleAppendRequest", i) /\ HandleAppendRequest(i, TRUE)

ReelectWaitersRun == \E i \in Server : Reelect("WaitersRun", i) /\ WaitersRun(i)

ReelectFsyncThread ==
    \E i \in Server : Reelect("FsyncThread", i) /\ FsyncThread(i, TRUE)

NextReelect ==
    \/ ReelectTimeout
    \/ ReelectVoteRequest
    \/ ReelectVoteReply
    \/ ReelectAppendRequest
    \/ ReelectWaitersRun
    \/ ReelectFsyncThread

SpecReelect ==
    /\ InitReelect /\ [][NextReelect]_vars
    /\ \A a \in ReelectFair : \A i \in (1..NServers) \ {OldLeader} :
           WF_done(Takes(ElectSchedule, a, i))

\* A server stands for a term after the old leader's.
NewTermCandidate ==
    \E i \in Server : raft[i].role = Candidate /\ raft[i].current_term > MaxTerm

NewTermLeader == \E l \in hist.leaders : l[2] > MaxTerm

\* Server j, which holds a vote it gave to another server in an earlier
\* term, is asked by c for its vote of term t, and its log is not more
\* up-to-date than the candidate's.
VoteAsked(j, c, t) ==
    \E m \in msgs :
        /\ m.type = "vote_request" /\ m.from = c /\ m.to = j /\ m.term = t
        /\ Running(j) /\ raft[j].current_term < t
        /\ raft[j].voted_for \notin {None, j}
        /\ ~LogIsMoreUpToDate(raft[j], m)

VoteGranted(j, c, t) ==
    \E r \in msgs :
        /\ r.type = "vote_reply" /\ r.from = j /\ r.to = c /\ r.term = t
        /\ r.vote_granted

\* C15 (election liveness): with the leader unreachable and a majority of
\* the members exchanging RPCs, a server becomes leader of a higher term;
\* a member whose log is not more up-to-date than the candidate's sends a
\* granting VoteReply of the new term also when it granted a vote in an
\* earlier term.
ElectionLiveness ==
    /\ NewTermCandidate ~> NewTermLeader
    /\ \A j \in 1..NServers : \A c \in 1..NServers : \A t \in 1..MaxReplTerm :
           VoteAsked(j, c, t) ~> VoteGranted(j, c, t)

(***************************************************************************)
(* A VoteRequest that is repeated, checked under Spec: a candidate that    *)
(* lost its unsynced term record in a power failure stands for the same    *)
(* term again.                                                             *)
(***************************************************************************)
\* Server j has voted for c in its term, the vote is on disk and its waiter
\* has run, and j handles the VoteRequest m of c for that term in this step.
RepeatedVoteRequest(j, c, m) ==
    /\ m \in msgs /\ m.type = "vote_request" /\ m.from = c /\ m.to = j
    /\ Running(j) /\ m.term = raft[j].current_term /\ raft[j].voted_for = c
    /\ Durable(raft[j]).current_term = m.term /\ Durable(raft[j]).voted_for = c
    /\ raft[j].waiters = <<>>
    /\ m \notin msgs' /\ hist'.ncrash = hist.ncrash

VoteRepeatStep ==
    \A j \in Server : \A c \in Server \ {j} : \A m \in msgs :
        RepeatedVoteRequest(j, c, m) =>
            /\ \E r \in msgs' \ msgs :
                   /\ r.type = "vote_reply" /\ r.from = j /\ r.to = c
                   /\ r.term = m.term /\ r.vote_granted
            /\ raft'[j].voted_for = c
            /\ raft'[j].current_term = m.term

\* C16: once server j's vote for c in term t is durable, j answers every
\* further VoteRequest of c for term t with vote_granted = true, and its
\* voted_for and current_term stay as they are.
VoteRequestIdempotent == [][VoteRepeatStep]_vars

(***************************************************************************)
(* AppendRequests whose entries the follower holds already, checked under  *)
(* SpecLate, where the leader sends entries again after a failure reply.   *)
(***************************************************************************)
\* Server j handles the AppendRequest m in this step, and m is not stale.
HandlesAppendRequest(j, m) ==
    /\ m \in msgs /\ m.type = "append_request" /\ m.to = j /\ m \notin msgs'
    /\ Running(j) /\ hist'.ncrash = hist.ncrash
    /\ TermIsCurrent(raft[j], m.term)
    /\ m.prev_log_index + 1 >= raft[j].log_start

\* The consistency check of m passes on s and s holds every entry of m with
\* the term m gives it.
AllPresent(s, m) ==
    /\ PrevMatches(s, m.prev_log_index, m.prev_log_term)
    /\ \A k \in 1..Len(m.entries) :
           /\ m.prev_log_index + k < log_end(s)
           /\ Entry(s, m.prev_log_index + k).term = m.entries[k].term

PresentStep ==
    \A j \in Server : \A m \in msgs :
        HandlesAppendRequest(j, m) /\ AllPresent(raft[j], m) =>
            /\ raft'[j].log = raft[j].log
            /\ raft'[j].log_start = raft[j].log_start
            /\ DOMAIN raft'[j].servers = DOMAIN raft[j].servers

\* Once m is handled its entries are present: a second delivery finds what
\* PresentStep is about.
OnceStep ==
    \A j \in Server : \A m \in msgs :
        /\ HandlesAppendRequest(j, m)
        /\ PrevMatches(raft[j], m.prev_log_index, m.prev_log_term)
        /\ raft'[j].role /= Aborted
        => AllPresent(raft'[j], m)

\* C17: an AppendRequest that passes the consistency check and whose
\* entries are all in the log with equal terms (a heartbeat included) leaves
\* log, log_start, log_end and the member set as they are, and the log
\* after one delivery of an AppendRequest is the log after two.
AppendRequestIdempotent == [][PresentStep /\ OnceStep]_vars

\* Server j answered a request with entries at once while the waiter of an
\* earlier request with the same entries was still on its list.
AppendRequestIdempotentWitness ==
    \E j \in Server : \E n \in 1..Len(raft[j].waiters) : \E r \in msgs :
        /\ Running(j)
        /\ raft[j].waiters[n].type = RAFT_W_APPEND
        /\ raft[j].waiters[n].n_entries > 0
        /\ r.type = "append_reply" /\ r.from = j /\ r.success
        /\ r.prev_log_index = raft[j].waiters[n].prev_log_index
        /\ r.n_entries = raft[j].waiters[n].n_entries

(***************************************************************************)
(* Replay of the storage file.                                             *)
(***************************************************************************)
\* What raft_read makes of the snapshot and of every record that server i
\* has written so far.
Replayed(i) ==
    raft_read(raft_alloc(i, raft[i].snap, raft[i].file, Len(raft[i].file)))

ReplayMatches(i) ==
    LET r == Replayed(i)
    IN /\ r.role /= Aborted
       /\ r.current_term = raft[i].current_term
       /\ r.voted_for = raft[i].voted_for
       /\ r.log_start = raft[i].log_start
       /\ r.log = raft[i].log
       /\ r.prev_term = raft[i].prev_term
       /\ r.prev_servers = raft[i].prev_servers
       /\ r.snapshot_len = raft[i].snapshot_len
       /\ DOMAIN r.servers = DOMAIN raft[i].servers

\* C18: at every point the replay of the records written so far succeeds
\* and yields the running server's current_term, voted_for, log with its
\* indexes, snapshot and member set.
ReplayRoundTrip == \A i \in Server : Running(i) => ReplayMatches(i)

(***************************************************************************)
(* A leader that steps down.  Server 1 wins term 2, server 3 hears of the  *)
(* term and stands for term 3; the leader takes commands and an AddServer  *)
(* request before the VoteRequest of term 3 or after it.                   *)
(***************************************************************************)
DownSchedule ==
    ElectSchedule \o << <<"HandleAppendRequest", 3>>, <<"Timeout", 3>> >>

DownFree ==
    {"HandleVoteRequest", "Execute", "HandleAddServerRequest", "WaitersRun",
     "FsyncThread"}

Down(a, i) == Sched(DownSchedule, DownFree, a, i)

NextDown ==
    \/ \E i \in Server : Down("Timeout", i) /\ Timeout(i, TRUE, MaxReplTerm)
    \/ \E i \in Server : Down("HandleVoteRequest", i) /\ HandleVoteRequest(i, TRUE)
    \/ \E i \in Server : Down("HandleVoteReply", i) /\ HandleVoteReply(i, TRUE)
    \/ \E i \in Server : Down("HandleAppendRequest", i) /\ HandleAppendRequest(i, TRUE)
    \/ \E i \in Server : Down("Execute", i) /\ Execute(i, TRUE)
    \/ \E i \in Server : Down("HandleAddServerRequest", i) /\ HandleAddServerRequest(i)
    \/ \E i \in Server : Down("WaitersRun", i) /\ WaitersRun(i)
    \/ \E i \in Server : Down("FsyncThread", i) /\ FsyncThread(i, TRUE)

SpecDown == Init /\ [][NextDown]_vars

\* Server i tells server o that leadership was lost.
LostLeadershipReply(i, o) ==
    [type |-> "add_server_reply", from |-> i, to |-> o, status |-> "lost_leadership"]

StepsDown(i) ==
    /\ raft[i].role = Leader /\ raft'[i].role = Follower
    /\ hist'.ncrash = hist.ncrash

StepDownStep ==
    \A i \in Server :
        StepsDown(i) =>
            /\ raft'[i].commands = {}
            /\ \A k \in raft[i].commands :
                   [sid |-> i, index |-> k, status |-> "lost_leadership"]
                       \in hist'.completed
            /\ \A a \in DOMAIN raft[i].add_servers :
                   \E r \in msgs' \ msgs :
                       r = Stamp(LostLeadershipReply(i, raft[i].add_servers[a].reply_sid),
                                 raft'[i])
            /\ raft[i].remove_server /= None =>
                   \E r \in msgs' \ msgs :
                       r = Stamp(LostLeadershipReply(i, raft[i].remove_server.reply_sid),
                                 raft'[i])

\* C19: when a server goes from Leader to Follower, every command that was
\* incomplete is completed with LostLeadership and none stays registered,
\* and the originator of every add in flight and of the removal in flight
\* is sent a LostLeadership reply.
StepDownCompletes == [][StepDownStep]_vars

(***************************************************************************)
(* raft_close against the fsync thread, step by step, checked under        *)
(* SpecClose.  fs.close is the position of raft_close, fs.at the position  *)
(* of the fsync thread when the sentinel was stored.                       *)
(***************************************************************************)
\* raft_complete_all_commands(raft, RAFT_CMD_SHUTDOWN).
CloseCompletes(i) ==
    /\ Running(i) /\ fs.written = -1 /\ fs.close = "open"
    /\ LET w == After([raft |-> raft, msgs |-> msgs, hist |-> hist], i,
                      raft_complete_all_commands(Ctx(raft[i], TRUE, -1),
                                                 "shutdown"))
       IN /\ raft' = w.raft
          /\ msgs' = w.msgs
          /\ hist' = w.hist
    /\ fs' = [fs EXCEPT !.close = "mark"]
    /\ UNCHANGED done

\* raft->fsync_next = UINT64_MAX, under the mutex.
CloseMarks(i) ==
    /\ fs.close = "mark"
    /\ raft' = [raft EXCEPT ![i].fsync_next = UINT64_MAX]
    /\ fs' = [fs EXCEPT !.close = "signal", !.at = fs.pc]
    /\ UNCHANGED <<msgs, hist, done>>

\* seq_change(raft->fsync_request).
CloseSignals(i) ==
    /\ fs.close = "signal"
    /\ fs' = [seq_change(fs, 1) EXCEPT !.close = "join"]
    /\ UNCHANGED <<raft, msgs, hist, done>>

\* xpthread_join(raft->fsync_thread, NULL) returns.
CloseJoins(i) ==
    /\ fs.close = "join" /\ fs.pc = "exit"
    /\ fs' = [fs EXCEPT !.close = "closed"]
    /\ UNCHANGED <<raft, msgs, hist, done>>

\* One step of raft_fsync_thread.
FsyncStep(i) ==
    \/ FsyncSeqRead(i)
    \/ FsyncRead(i)
    \/ FsyncCommitStarts(i)
    \/ FsyncCommitEnds(i)
    \/ FsyncCommitFails(i)
    \/ FsyncPublish(i)
    \/ FsyncWakes(i)

\* One step of raft_close after its first.
CloseStep(i) == CloseMarks(i) \/ CloseSignals(i) \/ CloseJoins(i)

NextClose ==
    \/ NextFsync
    \/ \E i \in Server : CloseCompletes(i)
    \/ \E i \in Server : CloseMarks(i)
    \/ \E i \in Server : CloseSignals(i)
    \/ \E i \in Server : CloseJoins(i)

\* The fsync thread is scheduled while it can run, and raft_close, once
\* called, runs on.
SpecClose ==
    /\ InitFsync /\ [][NextClose]_vars
    /\ WF_vars(\E i \in Server : FsyncStep(i))
    /\ WF_vars(\E i \in Server : CloseStep(i))

ShutdownStep ==
    \A i \in Server :
        fs.close = "open" /\ fs'.close = "mark"
            => /\ raft'[i].commands = {}
               /\ \A k \in raft[i].commands :
                      [sid |-> i, index |-> k, status |-> "shutdown"]
                          \in hist'.completed

\* C20: raft_close completes every incomplete command with Shutdown, and
\* it terminates: once fsync_next is the sentinel and the request seq is
\* changed, the fsync thread leaves its loop, wherever it was (idle, inside
\* a commit, about to block), and the join returns.
CloseTerminates ==
    /\ [][ShutdownStep]_vars
    /\ (fs.close = "join") ~> (fs.pc = "exit")
    /\ (fs.close /= "open") ~> (fs.close = "closed")

\* raft_close was called with a command incomplete, the sentinel was stored
\* while a commit was under way, and the join has returned.
CloseTerminatesWitness ==
    /\ fs.close = "closed" /\ fs.pc = "exit" /\ fs.at = "sync"
    /\ \E e \in hist.completed : e.status = "shutdown"

(***************************************************************************)
(* A server joins the cluster of two; checked under SpecAdd.  The joiner   *)
(* is the server raft_join leaves: an empty file, no configuration, and    *)
(* its election timer never expires while it is joining.  Server 1 wins    *)
(* term 2 first; a client may execute commands, and the AddServer request  *)
(* of the joiner reaches the leader.  Every server's main loop and fsync   *)
(* thread keep running and no RPC is lost.                                 *)
(***************************************************************************)
JoinSnap == [prev_index |-> 0, prev_term |-> 0, prev_servers |-> {}, data |-> <<>>]

InitAdd ==
    /\ raft = (Joiner :> raft_alloc(Joiner, JoinSnap, <<>>, 0))
                  @@ InitWorld(NReplServers).raft
    /\ msgs = InitWorld(NReplServers).msgs
    /\ hist = InitWorld(NReplServers).hist
    /\ fs = 0
    /\ done = <<0, "", None>>

AddFair ==
    {"HandleVoteRequest", "HandleVoteReply", "HandleAppendRequest", "HandleAppendReply",
     "HandleInstallSnapshotRequest", "HandleInstallSnapshotReply", "WaitersRun",
     "FsyncThread"}

AddFree == AddFair \cup {"Execute", "HandleAddServerRequest"}

Add(a, i) == Stamped(ElectSchedule, AddFree, a, i)

AddTimeout == \E i \in Server : Add("Timeout", i) /\ Timeout(i, TRUE, MaxTerm)

AddVoteRequest ==
    \E i \in Server : Add("HandleVoteRequest", i) /\ HandleVoteRequest(i, TRUE)

AddVoteReply == \E i \in Server : Add("HandleVoteReply", i) /\ HandleVoteReply(i, TRUE)

AddExecute ==
    \E i \in Server :
        /\ Add("Execute", i) /\ raft[i].role = Leader /\ hist.ncmd < MaxJoinCmds
        /\ Execute(i, TRUE)

\* The request comes from the joiner itself.
AddAddServerRequest ==
    \E i \in Server :
        /\ Add("HandleAddServerRequest", i) /\ raft[i].role = Leader
        /\ HandleAddServerRequest(i)
        /\ Joiner \in DOMAIN raft'[i].add_servers
        /\ raft'[i].add_servers[Joiner].reply_sid = Joiner

AddAppendRequest ==
    \E i \in Server : Add("HandleAppendRequest", i) /\ HandleAppendRequest(i, TRUE)

AddAppendReply ==
    \E i \in Server : Add("HandleAppendReply", i) /\ HandleAppendReply(i, TRUE)

AddInstallSnapshotRequest ==
    \E i \in Server :
        Add("HandleInstallSnapshotRequest", i) /\ HandleInstallSnapshotRequest(i, TRUE)

AddInstallSnapshotReply ==
    \E i \in Server :
        Add("HandleInstallSnapshotReply", i) /\ HandleInstallSnapshotReply(i, TRUE)

AddWaitersRun == \E i \in Server : Add("WaitersRun", i) /\ WaitersRun(i)

AddFsyncThread == \E i \in Server : Add("FsyncThread", i) /\ FsyncThread(i, TRUE)

NextAdd ==
    \/ AddTimeout
    \/ AddVoteRequest
    \/ AddVoteReply
    \/ AddExecute
    \/ AddAddServerRequest
    \/ AddAppendRequest
    \/ AddAppendReply
    \/ AddInstallSnapshotRequest
    \/ AddInstallSnapshotReply
    \/ AddWaitersRun
    \/ AddFsyncThread

SpecAdd ==
    /\ InitAdd /\ [][NextAdd]_vars
    /\ \A a \in AddFair : \A i \in (1..NReplServers) \cup {Joiner} :
           WF_done(Takes(ElectSchedule, a, i))

\* The joiner as the leader i holds it: being added, or a member.
Adding(i) == raft[i].role = Leader /\ Joiner \in DOMAIN raft[i].add_servers

AddPhase(i, phase) == Adding(i) /\ raft[i].add_servers[Joiner].phase = phase

\* The log of leader i holds the configuration of the old members plus the
\* joiner.
Enlarged(i) ==
    /\ raft[i].role = Leader
    /\ \E k \in raft[i].log_start..(log_end(raft[i]) - 1) :
           /\ Entry(raft[i], k).type = RAFT_SERVERS
           /\ Entry(raft[i], k).data = (1..NReplServers) \cup {Joiner}

AddOk == \E m \in msgs : m.type = "add_server_reply" /\ m.status = "ok"

\* Server i is no leader any more.
Deposed(i) == raft[i].role /= Leader

\* The index of the enlarged configuration in the log of server i, or 0.
EnlargedIndex(s) ==
    LET idx == {k \in s.log_start..(log_end(s) - 1) :
                   /\ Entry(s, k).type = RAFT_SERVERS
                   /\ Entry(s, k).data = (1..NReplServers) \cup {Joiner}}
    IN IF idx = {} THEN 0 ELSE CHOOSE k \in idx : \A j \in idx : k <= j

EnlargedCommitted(i) ==
    Enlarged(i) /\ raft[i].commit_index >= EnlargedIndex(raft[i])

\* The originator of the request, the joiner, is sent status Ok.
JoinerToldOk ==
    \E m \in msgs : m.type = "add_server_reply" /\ m.status = "ok" /\ m.to = Joiner

\* From the append of the enlarged configuration on the joiner is a member
\* for the leader, and the leader commits an index only when more than half
\* of the members, the joiner among them, match it.
EnlargedMajorityStep ==
    \A i \in Server :
        raft'[i].role = Leader /\ EnlargedIndex(raft'[i]) /= 0
            => /\ Joiner \in DOMAIN raft'[i].servers
               /\ raft'[i].commit_index > raft[i].commit_index
                    => 2 * MatchCount(raft'[i], raft'[i].commit_index)
                           > Cardinality(DOMAIN raft'[i].servers)

\* C21 (AddServer liveness): on a leader that stays leader, with every
\* server reachable, a joiner that the leader started to add reaches phase
\* CaughtUp; then the leader appends the configuration of the old members
\* plus the joiner; once that entry is committed the joiner is sent status
\* Ok; and from the append on the majority is counted over the enlarged
\* set.
AddServerLiveness ==
    /\ \A i \in 1..NReplServers :
           AddPhase(i, RAFT_PHASE_CATCHUP)
               ~> (AddPhase(i, RAFT_PHASE_CAUGHT_UP) \/ Enlarged(i) \/ Deposed(i))
    /\ \A i \in 1..NReplServers :
           AddPhase(i, RAFT_PHASE_CAUGHT_UP) ~> (Enlarged(i) \/ Deposed(i))
    /\ \A i \in 1..NReplServers :
           EnlargedCommitted(i) ~> (JoinerToldOk \/ Deposed(i))
    /\ [][EnlargedMajorityStep]_vars


(***************************************************************************)
(* The transfer of a snapshot; checked under SpecChunks.  The data of the  *)
(* cluster has one of the lengths of SnapLens.  Server 1 wins term 2, the  *)
(* AddServer request of the joiner reaches it, and the joiner, whose log   *)
(* starts before the leader's, is sent the snapshot.  A chunk can be sent  *)
(* more than once, so that the leader resumes more than once from an       *)
(* offset the joiner reported, and chunks arrive that the buffer is past,  *)
(* or short of.                                                            *)
(***************************************************************************)
SnapLens == {0, MAX_CHUNK, 2 * MAX_CHUNK + 1}

ClusterData(n) == IF n = 0 THEN <<>> ELSE << <<0, n>> >>

InitChunks ==
    \E n \in SnapLens :
        LET snap == [InitSnap EXCEPT !.data = ClusterData(n)]
            file(i) == InitFile(i, NReplServers)
        IN /\ raft = (Joiner :> raft_alloc(Joiner, JoinSnap, <<>>, 0))
                         @@ [i \in 1..NReplServers |->
                                raft_open(i, snap, file(i), Len(file(i)))]
           /\ msgs = {}
           /\ hist = InitWorld(NReplServers).hist
           /\ fs = 0
           /\ done = 0

ChunksFree ==
    {"HandleAddServerRequest", "HandleAppendRequest", "HandleAppendReply",
     "HandleInstallSnapshotRequest", "HandleInstallSnapshotReply", "RepeatedChunk",
     "WaitersRun", "FsyncThread"}

Chunks(a, i) == Sched(ElectSchedule, ChunksFree, a, i)

\* A chunk on its way to server i is sent once more.
RepeatedChunk(i) ==
    /\ hist.nchunk < MaxChunkRepeats
    /\ \E m \in msgs :
           /\ Receive(i, m, "install_snapshot_request")
           /\ msgs' = msgs \cup {[copy |-> hist.nchunk + 1] @@ m}
    /\ hist' = [hist EXCEPT !.nchunk = @ + 1]
    /\ UNCHANGED <<raft, fs>>

NextChunks ==
    \/ \E i \in Server : Chunks("Timeout", i) /\ Timeout(i, TRUE, MaxTerm)
    \/ \E i \in Server : Chunks("HandleVoteRequest", i) /\ HandleVoteRequest(i, TRUE)
    \/ \E i \in Server : Chunks("HandleVoteReply", i) /\ HandleVoteReply(i, TRUE)
    \/ \E i \in Server : /\ Chunks("HandleAddServerRequest", i)
                         /\ raft[i].role = Leader
                         /\ HandleAddServerRequest(i)
    \/ \E i \in Server : Chunks("HandleAppendRequest", i) /\ HandleAppendRequest(i, TRUE)
    \/ \E i \in Server : Chunks("HandleAppendReply", i) /\ HandleAppendReply(i, TRUE)
    \/ \E i \in Server : Chunks("HandleInstallSnapshotRequest", i)
                            /\ HandleInstallSnapshotRequest(i, TRUE)
    \/ \E i \in Server : Chunks("HandleInstallSnapshotReply", i)
                            /\ HandleInstallSnapshotReply(i, TRUE)
    \/ \E i \in Server : Chunks("RepeatedChunk", i) /\ RepeatedChunk(i)
    \/ \E i \in Server : Chunks("WaitersRun", i) /\ WaitersRun(i)
    \/ \E i \in Server : Chunks("FsyncThread", i) /\ FsyncThread(i, TRUE)

SpecChunks == InitChunks /\ [][NextChunks]_vars

InstallStep ==
    \A e \in hist'.installed \ hist.installed :
        /\ raft[e.from].log_start - 1 = e.last_index
        /\ raft[e.from].prev_term = e.last_term
        /\ e.data = raft[e.from].snapshot

\* C22: whatever chunks a follower receives of a leader's snapshot, in
\* whatever order and however often, the bytes it installs are the bytes of
\* the leader's snapshot of that last_index and last_term.
SnapshotTransferIntegrity == [][InstallStep]_vars

\* A snapshot of three chunks was installed, and chunks were sent more than
\* once on the way.
SnapshotTransferIntegrityWitness ==
    /\ hist.nchunk = MaxChunkRepeats
    /\ \E e \in hist.installed :
           /\ e.sid = Joiner /\ BytesLen(e.data) > 2 * MAX_CHUNK
           /\ raft[Joiner].snapshot = e.data

(***************************************************************************)
(* The terms of RPCs; checked under SpecTerms.  Server 1 wins term 2 in a  *)
(* cluster of two that a third server asks to join, of one leader and     *)
(* then of the next; from there any member can time out, up to term        *)
(* MaxStaleTerm, and RPCs are handled in any                               *)
(* order, so that RPCs of a term that is over reach servers that have      *)
(* moved on, and RPCs of a new term servers that have not.  "done" holds   *)
(* the steps taken of the schedule and the kinds of RPC handled so far.    *)
(***************************************************************************)
InitTerms ==
    /\ raft = (Joiner :> raft_alloc(Joiner, JoinSnap, <<>>, 0))
                  @@ InitWorld(NReplServers).raft
    /\ msgs = InitWorld(NReplServers).msgs
    /\ hist = InitWorld(NReplServers).hist
    /\ fs = 0
    /\ done = <<0, {}>>

TermsFree ==
    {"Timeout", "HandleVoteRequest", "HandleVoteReply", "HandleAddServerRequest",
     "HandleAppendRequest", "HandleAppendReply", "HandleInstallSnapshotRequest",
     "HandleInstallSnapshotReply", "WaitersRun", "FsyncThread"}

Terms(a, i) ==
    IF done[1] < Len(ElectSchedule) THEN ElectSchedule[done[1] + 1] = <<a, i>>
    ELSE a \in TermsFree

\* The RPCs the step handles: they leave the network.
HandledRPCs(i) == {m \in msgs \ msgs' : m.to = i /\ m.type /= "add_server_reply"}

TermCase(i, m) ==
    IF m.term > raft[i].current_term THEN "newer"
    ELSE IF m.term < raft[i].current_term THEN "stale"
    ELSE "current"

TermsSeen(i) ==
    done' = <<Min(done[1] + 1, Len(ElectSchedule)),
              done[2] \cup {<<m.type, TermCase(i, m)>> : m \in HandledRPCs(i)}>>

NextTerms ==
    \/ \E i \in Server : /\ Terms("Timeout", i) /\ i /= Joiner
                         /\ Timeout(i, TRUE, MaxStaleTerm) /\ TermsSeen(i)
    \/ \E i \in Server : /\ Terms("HandleVoteRequest", i)
                         /\ HandleVoteRequest(i, TRUE) /\ TermsSeen(i)
    \/ \E i \in Server : /\ Terms("HandleVoteReply", i)
                         /\ HandleVoteReply(i, TRUE) /\ TermsSeen(i)
    \/ \E i \in Server : /\ Terms("HandleAddServerRequest", i)
                         /\ raft[i].role = Leader
                         /\ AddServerRequestArrives(i, MaxTermAdds)
                         /\ Joiner \in DOMAIN raft'[i].add_servers
                         /\ raft'[i].add_servers[Joiner].reply_sid = Joiner
                         /\ TermsSeen(i)
    \/ \E i \in Server : /\ Terms("HandleAppendRequest", i)
                         /\ HandleAppendRequest(i, TRUE) /\ TermsSeen(i)
    \/ \E i \in Server : /\ Terms("HandleAppendReply", i)
                         /\ HandleAppendReply(i, TRUE) /\ TermsSeen(i)
    \/ \E i \in Server : /\ Terms("HandleInstallSnapshotRequest", i)
                         /\ HandleInstallSnapshotRequest(i, TRUE) /\ TermsSeen(i)
    \/ \E i \in Server : /\ Terms("HandleInstallSnapshotReply", i)
                         /\ HandleInstallSnapshotReply(i, TRUE) /\ TermsSeen(i)
    \/ \E i \in Server : Terms("WaitersRun", i) /\ WaitersRun(i) /\ TermsSeen(i)
    \/ \E i \in Server : Terms("FsyncThread", i) /\ FsyncThread(i, TRUE) /\ TermsSeen(i)

SpecTerms == InitTerms /\ [][NextTerms]_vars

Requests == {"vote_request", "append_request", "install_snapshot_request"}

ReplyTo(type) ==
    IF type = "vote_request" THEN "vote_reply"
    ELSE IF type = "append_request" THEN "append_reply"
    ELSE "install_snapshot_reply"

\* A newer term is adopted with no vote, or with the vote the request of
\* that term is then given, and the receiver is a follower.
NewerTermStep(i, m) ==
    /\ raft'[i].current_term = m.term
    /\ raft'[i].role = Follower
    /\ \/ raft'[i].voted_for = None
       \/ m.type = "vote_request" /\ raft'[i].voted_for = m.from

StaleTermStep(i, m) ==
    /\ raft'[i].log = raft[i].log /\ raft'[i].log_start = raft[i].log_start
    /\ raft'[i].current_term = raft[i].current_term
    /\ raft'[i].voted_for = raft[i].voted_for
    /\ raft'[i].commit_index = raft[i].commit_index
    /\ raft'[i].snapshot_buf = raft[i].snapshot_buf
    /\ raft'[i].servers = raft[i].servers
    /\ raft'[i].add_servers = raft[i].add_servers
    /\ raft'[i].role = raft[i].role
    /\ m.type \in Requests =>
           \E r \in msgs' : /\ r.type = ReplyTo(m.type) /\ r.to = m.from /\ r.from = i
                            /\ r.term = raft[i].current_term
                            /\ m.type = "vote_request" => ~r.vote_granted
                            /\ m.type = "append_request" => ~r.success

TermRuleStep ==
    \A i \in Server : \A m \in HandledRPCs(i) :
        raft'[i].role /= Aborted =>
            /\ TermCase(i, m) = "newer" => NewerTermStep(i, m)
            /\ TermCase(i, m) = "stale" => StaleTermStep(i, m)

\* C23: an RPC of a newer term makes its receiver a follower of that term
\* with no vote before anything else is done with it; an RPC of a stale
\* term changes none of the receiver's log, vote, commit_index, snapshot
\* buffer and membership, and a stale request is answered with the
\* receiver's own term.
UniversalTermRule == [][TermRuleStep]_vars

\* One behaviour in which requests and replies of a newer term were handled,
\* and stale chunks of a snapshot and stale replies to chunks.  A behaviour
\* of SpecTerms handles every kind but two: an InstallSnapshot request of a
\* newer term, which a leader sends to no server that has not answered it
\* in its term, and an InstallSnapshot reply of a newer term, which takes a
\* leader that was elected behind the back of the sender.
UniversalTermRuleWitness ==
    {<<"install_snapshot_request", "stale">>, <<"install_snapshot_reply", "stale">>,
     <<"append_request", "newer">>, <<"vote_request", "newer">>,
     <<"append_reply", "newer">>} \subseteq done[2]

(***************************************************************************)
(* A candidate meets the leader of its term; checked under SpecRival.      *)
(* Servers 1 and 3 of a cluster of three start the election of term 2, and *)
(* server 1 wins it with the vote of server 2.  From there the RPCs in     *)
(* flight are handled in any order and the leader's ping timer expires.    *)
(***************************************************************************)
RivalSchedule ==
    << <<"Timeout", 1>>, <<"Timeout", 3>>, <<"HandleVoteRequest", 2>>,
       <<"FsyncThread", 2>>, <<"WaitersRun", 2>>, <<"HandleVoteReply", 1>> >>

RivalFree ==
    {"HandleVoteRequest", "HandleVoteReply", "HandleAppendRequest", "HandleAppendReply",
     "Heartbeat", "WaitersRun", "FsyncThread"}

Rival(a, i) == Sched(RivalSchedule, RivalFree, a, i)

NextRival ==
    \/ \E i \in Server : Rival("Timeout", i) /\ Timeout(i, TRUE, MaxTerm)
    \/ \E i \in Server : Rival("HandleVoteRequest", i) /\ HandleVoteRequest(i, TRUE)
    \/ \E i \in Server : Rival("HandleVoteReply", i) /\ HandleVoteReply(i, TRUE)
    \/ \E i \in Server : Rival("HandleAppendRequest", i) /\ HandleAppendRequest(i, TRUE)
    \/ \E i \in Server : Rival("HandleAppendReply", i) /\ HandleAppendReply(i, TRUE)
    \/ \E i \in Server : Rival("Heartbeat", i) /\ Heartbeat(i)
    \/ \E i \in Server : Rival("WaitersRun", i) /\ WaitersRun(i)
    \/ \E i \in Server : Rival("FsyncThread", i) /\ FsyncThread(i, TRUE)

SpecRival == Init /\ [][NextRival]_vars

LeaderDiscoveredStep ==
    \A i \in Server : \A m \in HandledRPCs(i) :
        /\ m.type \in {"append_request", "install_snapshot_request"}
        /\ raft[i].role = Candidate /\ m.term = raft[i].current_term
        /\ raft'[i].role /= Aborted
        => raft'[i].role = Follower

\* C24: a candidate of term t that handles an AppendEntries or
\* InstallSnapshot request of term t, the request of the leader of its
\* term, is a follower when it has handled it.
CandidateYieldsToLeader == [][LeaderDiscoveredStep]_vars

(***************************************************************************)
(* Truncation below commit_index; checked under SpecTruncate.  Of the two  *)
(* leaders of term 3 of SplitSchedule, each with an entry of its own at    *)
(* index 4, server 2 replicates its entry to server 3 and its ping timer   *)
(* expires.  From there server 3 handles the requests it is sent and       *)
(* server 1 the replies, in any order.                                     *)
(***************************************************************************)
TruncateSchedule ==
    SplitSchedule \o
    << <<"HandleAppendRequest", 3>>, <<"FsyncThread", 3>>, <<"WaitersRun", 3>>,
       <<"HandleAppendReply", 2>>, <<"FsyncThread", 2>>, <<"WaitersRun", 2>>,
       <<"Heartbeat", 2>> >>

TruncateFree == {"HandleAppendRequest", "HandleAppendReply"}

Truncate(a, i) == Sched(TruncateSchedule, TruncateFree, a, i)

NextTruncate ==
    \/ \E i \in Server : Truncate("Timeout", i) /\ Timeout(i, TRUE, MaxReplTerm)
    \/ \E i \in Server : Truncate("HandleVoteRequest", i) /\ HandleVoteRequest(i, TRUE)
    \/ \E i \in Server : Truncate("HandleVoteRequestStoreFails", i)
                            /\ HandleVoteRequestStoreFails(i)
    \/ \E i \in Server : Truncate("HandleVoteReply", i) /\ HandleVoteReply(i, TRUE)
    \/ \E i \in Server : Truncate("Execute", i) /\ Execute(i, TRUE)
    \/ \E i \in Server : /\ Truncate("HandleAppendRequest", i)
                         /\ done < Len(TruncateSchedule) \/ i = Challenger
                         /\ HandleAppendRequest(i, TRUE)
    \/ \E i \in Server : /\ Truncate("HandleAppendReply", i)
                         /\ done < Len(TruncateSchedule) \/ i = OldLeader
                         /\ HandleAppendReply(i, TRUE)
    \/ \E i \in Server : Truncate("Heartbeat", i) /\ Heartbeat(i)
    \/ \E i \in Server : Truncate("WaitersRun", i) /\ WaitersRun(i)
    \/ \E i \in Server : Truncate("FsyncThread", i) /\ FsyncThread(i, TRUE)
    \/ \E i \in Server : Truncate("Restart", i) /\ Restart(i)

SpecTruncate == Init /\ [][NextTruncate]_vars

\* The entries of server i up to its commit_index are in its log after the
\* step, as they were.
CommittedKeptStep(i) ==
    \A k \in raft[i].log_start..Min(raft[i].commit_index, log_end(raft[i]) - 1) :
        /\ k >= raft'[i].log_start => k < log_end(raft'[i])
        /\ k >= raft'[i].log_start => Entry(raft'[i], k) = Entry(raft[i], k)

TruncationStep ==
    \A i \in Server : \A m \in HandledRPCs(i) :
        m.type = "append_request" /\ raft'[i].role = Follower => CommittedKeptStep(i)

\* C25: a follower that handles an AppendEntries request removes no entry
\* from its log whose index is at most its commit_index.
NoCommittedTruncation == [][TruncationStep]_vars

(***************************************************************************)
(* The commit rule of the leader; checked under SpecRepl, where the leader *)
(* of term 2 starts with an entry of term 1 above its commit_index.        *)
(***************************************************************************)
\* The indexes above "old" that server s can commit: entries of its term
\* that more than half of its servers match.
Committable(s, old) ==
    {n \in (old + 1)..(log_end(s) - 1) :
        /\ n >= s.log_start
        /\ Entry(s, n).term = s.current_term
        /\ 2 * Cardinality({x \in DOMAIN s.servers : s.servers[x].match_index >= n})
               > Cardinality(DOMAIN s.servers)}

MatchUpdated(i) ==
    /\ raft[i].role = Leader /\ raft'[i].role = Leader
    /\ DOMAIN raft'[i].servers = DOMAIN raft[i].servers
    /\ \E x \in DOMAIN raft[i].servers :
           raft'[i].servers[x].match_index /= raft[i].servers[x].match_index

CommitRuleStep ==
    \A i \in Server :
        MatchUpdated(i) =>
            LET ns == Committable(raft'[i], raft[i].commit_index)
            IN IF ns = {} THEN raft'[i].commit_index = raft[i].commit_index
               ELSE /\ raft'[i].commit_index \in ns
                    /\ \A n \in ns : n <= raft'[i].commit_index

\* C26: after an update of a match_index the leader's commit_index is the
\* largest index above the old one whose entry is of the current term and
\* which more than half of the members match, and is unchanged when there
\* is none; an index that fails the test does not keep a later one from
\* being committed.
LeaderCommitRule == [][CommitRuleStep]_vars

\* A leader has committed an entry of its term, and with it the entry of an
\* earlier term below it that it could not commit by itself.
LeaderCommitRuleWitness ==
    \E i \in Server :
        /\ raft[i].role = Leader /\ raft[i].commit_index >= 3
        /\ Entry(raft[i], raft[i].commit_index).term = raft[i].current_term
        /\ Entry(raft[i], 2).term < raft[i].current_term
        /\ \E e \in hist.committed : e.index = 2 /\ e.term = raft[i].current_term

(***************************************************************************)
(* The consistency check and the splice of raft_handle_append_entries      *)
(* against a reference; checked under SpecTruncate, where the two leaders  *)
(* of term 3 send the third server entries that conflict.                  *)
(***************************************************************************)
\* The request rq finds no entry of term prev_log_term at prev_log_index.
RefRejects(s, rq) ==
    \/ rq.prev_log_index >= log_end(s)
    \/ rq.prev_log_term /= (IF rq.prev_log_index = s.log_start - 1 THEN s.prev_term
                            ELSE Entry(s, rq.prev_log_index).term)

\* The log after the request: the old log up to the first entry whose term
\* is not that of the request's entry, then the request's entries from there.
RefSplice(s, rq) ==
    LET differ == {k \in 1..Len(rq.entries) :
                      /\ rq.prev_log_index + k < log_end(s)
                      /\ Entry(s, rq.prev_log_index + k).term /= rq.entries[k].term}
        k0 == IF differ = {} THEN log_end(s) - rq.prev_log_index ELSE CHOOSE k \in differ : \A j \in differ : k <= j
    IN SubSeq(s.log, 1, rq.prev_log_index + k0 - s.log_start)
           \o SubSeq(rq.entries, k0, Len(rq.entries))

AppendReplies(i, rq) ==
    {r \in msgs' : /\ r.type = "append_reply" /\ r.from = i /\ r.to = rq.from
                   /\ r.prev_log_index = rq.prev_log_index
                   /\ r.prev_log_term = rq.prev_log_term
                   /\ r.n_entries = Len(rq.entries)}

SpliceStep ==
    \A i \in Server : \A rq \in msgs \ msgs' :
        (/\ rq.to = i /\ rq.type = "append_request"
         /\ raft'[i].role /= Aborted
         /\ rq.term >= raft[i].current_term
         /\ rq.prev_log_index >= raft[i].log_start - 1)
        => IF RefRejects(raft[i], rq)
           THEN /\ raft'[i].log = raft[i].log
                /\ raft'[i].log_start = raft[i].log_start
                /\ \E r \in AppendReplies(i, rq) :
                       ~r.success /\ r.log_end = log_end(raft[i])
           ELSE /\ raft'[i].log = RefSplice(raft[i], rq)
                /\ raft'[i].log_start = raft[i].log_start
                /\ \A r \in AppendReplies(i, rq) \ msgs : r.success

\* C27: an AppendRequest of a term that is not stale, with prev_log_index
\* >= log_start - 1, is rejected at once (success = false, log_end = the
\* follower's log_end, log unchanged) exactly when prev_log_index >= log_end
\* or the term stored at prev_log_index is not prev_log_term; otherwise the
\* log becomes the old log up to the first index whose term differs from the
\* request's entry, followed by the request's entries from that index on.
AppendSpliceMatchesReference == [][SpliceStep]_vars

\* A server holds, at an index it has applied, another entry than the one it
\* applied: a request has cut its log there and appended its own entries;
\* and the leader whose heartbeat it rejected has moved its next_index back.
AppendSpliceMatchesReferenceWitness ==
    \E a \in hist.applied :
        /\ raft[a.sid].role = Follower
        /\ a.index >= raft[a.sid].log_start /\ a.index < log_end(raft[a.sid])
        /\ Entry(raft[a.sid], a.index).term /= a.entry.term

(***************************************************************************)
(* AppendRequests at the snapshot boundary.  Two servers are opened from   *)
(* files whose snapshot ends at some index, as a compaction leaves them,   *)
(* with zero to two entries behind it, and one AppendRequest of term 2 is  *)
(* in flight to server 2: any prev_log_index, up to MaxBoundaryEntries     *)
(* entries, of term 1 up to some index and of term 2 from there.           *)
(***************************************************************************)
BoundaryTerm(k, from2) == IF k >= from2 THEN 2 ELSE 1

BoundaryFile(p, e, from2) ==
    <<StateRec(2, None)>> \o
    [k \in 1..e |-> EntryRec(p + k, [term |-> BoundaryTerm(p + k, from2),
                                     type |-> RAFT_DATA, data |-> p + k])]

BoundaryRequest(prev, n, from2, commit) ==
    [type |-> "append_request", from |-> 1, to |-> 2, term |-> 2,
     prev_log_index |-> prev, prev_log_term |-> BoundaryTerm(prev, from2),
     leader_commit |-> commit,
     entries |-> [k \in 1..n |-> [term |-> BoundaryTerm(prev + k, from2),
                                  type |-> RAFT_DATA, data |-> 10 + prev + k]]]

InitBoundary ==
    \E p \in 1..(MaxBoundaryIndex - 1), e \in 0..2, f \in {MaxBoundaryIndex, MaxBoundaryIndex + 3} :
    \E prev \in 0..MaxBoundaryIndex, n \in 0..MaxBoundaryEntries,
       g \in {MaxBoundaryIndex, MaxBoundaryIndex + 3}, commit \in {0, MaxBoundaryIndex + 1} :
        LET snap == [InitSnap EXCEPT !.prev_index = p, !.prev_term = 1,
                                     !.prev_servers = 1..NReplServers]
            file == BoundaryFile(p, e, f)
        IN /\ raft = [i \in 1..NReplServers |-> raft_open(i, snap, file, Len(file))]
           /\ msgs = {BoundaryRequest(prev, n, g, commit)}
           /\ hist = InitWorld(NReplServers).hist
           /\ fs = 0
           /\ done = 0

NextBoundary ==
    \/ \E i \in Server : HandleAppendRequest(i, TRUE) /\ UNCHANGED done
    \/ \E i \in Server : FsyncThread(i, TRUE) /\ UNCHANGED done
    \/ \E i \in Server : WaitersRun(i) /\ UNCHANGED done

SpecBoundary == InitBoundary /\ [][NextBoundary]_vars

\* The request with the entries below log_start dropped.
Trimmed(s, rq) ==
    LET ofs == s.log_start - (rq.prev_log_index + 1)
    IN [rq EXCEPT !.prev_log_index = s.log_start - 1,
                  !.prev_log_term = rq.entries[ofs].term,
                  !.entries = SubSeq(rq.entries, ofs + 1, Len(rq.entries))]

NewAppendReplies(i) == {r \in msgs' \ msgs : r.type = "append_reply" /\ r.from = i}

StraddleStep ==
    \A i \in Server : \A rq \in msgs \ msgs' :
        (/\ rq.to = i /\ rq.type = "append_request"
         /\ rq.term >= raft[i].current_term
         /\ rq.prev_log_index + 1 < raft[i].log_start
         /\ rq.prev_log_index + Len(rq.entries) >= raft[i].log_start)
        => LET ref == raft_handle_append_request(Ctx(raft[i], TRUE, -1),
                                                 Trimmed(raft[i], rq))
           IN /\ raft'[i].log = ref.s.log
              /\ raft'[i].log_start = ref.s.log_start
              /\ DOMAIN raft'[i].servers = DOMAIN ref.s.servers
              /\ raft'[i].role = ref.s.role
              /\ Len(raft'[i].waiters) = Len(ref.s.waiters)
              /\ {r.success : r \in NewAppendReplies(i)} = {r.success : r \in ref.out}

BelowSnapshotStep ==
    \A i \in Server : \A rq \in msgs \ msgs' :
        (/\ rq.to = i /\ rq.type = "append_request"
         /\ rq.term >= raft[i].current_term
         /\ rq.prev_log_index + Len(rq.entries) < raft[i].log_start - 1)
        => /\ raft'[i].role = raft[i].role
           /\ raft'[i].log = raft[i].log
           /\ raft'[i].log_start = raft[i].log_start
           /\ raft'[i].commit_index = raft[i].commit_index
           /\ \E r \in NewAppendReplies(i) : r.success

\* The first half of C28 by itself: a request that straddles log_start - 1
\* is handled as the request trimmed to log_start - 1.
StraddleEquivalence == [][StraddleStep]_vars

\* C28: an AppendRequest with prev_log_index + 1 < log_start and
\* prev_log_index + n_entries >= log_start gives the same log, the same
\* members and the same success or failure as the request without the
\* entries below log_start, with prev_log_index = log_start - 1 and
\* prev_log_term the term of its entry at log_start - 1; a request whose last
\* index is below log_start - 1 is accepted and changes neither the log nor
\* commit_index.
SnapshotBoundaryEquivalence == [][StraddleStep /\ BelowSnapshotStep]_vars

(***************************************************************************)
(* A command whose entry is overwritten.  After SplitSchedule servers 1    *)
(* and 2 both lead term 3; server 1 holds at index 4 its command of term   *)
(* 2, server 2 its command of term 3.  Server 2 rejects the heartbeat of   *)
(* server 1 and then takes its entry of index 4; server 1 appends a third  *)
(* command, commits it with the acknowledgement of server 2 and tells      *)
(* server 2 so with its next heartbeat.                                    *)
(***************************************************************************)
OverwriteSchedule ==
    SplitSchedule \o
    << <<"HandleAppendRequest", 2>>, <<"HandleAppendReply", 1>>,
       <<"HandleAppendRequest", 2>>, <<"FsyncThread", 2>>, <<"WaitersRun", 2>>,
       <<"HandleAppendReply", 1>>, <<"Execute", 1>>, <<"FsyncThread", 1>>,
       <<"WaitersRun", 1>>, <<"HandleAppendRequest", 2>>, <<"FsyncThread", 2>>,
       <<"WaitersRun", 2>>, <<"HandleAppendReply", 1>>, <<"Heartbeat", 1>>,
       <<"HandleAppendRequest", 2>> >>

OverwriteFree == {"HandleAppendReply", "WaitersRun", "FsyncThread"}

Overwrite(a, i) == Sched(OverwriteSchedule, OverwriteFree, a, i)

NextOverwrite ==
    \/ \E i \in Server : Overwrite("Timeout", i) /\ Timeout(i, TRUE, MaxReplTerm)
    \/ \E i \in Server : Overwrite("HandleVoteRequest", i) /\ HandleVoteRequest(i, TRUE)
    \/ \E i \in Server : Overwrite("HandleVoteRequestStoreFails", i)
                            /\ HandleVoteRequestStoreFails(i)
    \/ \E i \in Server : Overwrite("HandleVoteReply", i) /\ HandleVoteReply(i, TRUE)
    \/ \E i \in Server : Overwrite("Execute", i) /\ ExecuteUpTo(i, TRUE, MaxOverwriteCmds)
    \/ \E i \in Server : Overwrite("HandleAppendRequest", i) /\ HandleAppendRequest(i, TRUE)
    \/ \E i \in Server : Overwrite("HandleAppendReply", i) /\ HandleAppendReply(i, TRUE)
    \/ \E i \in Server : Overwrite("Heartbeat", i) /\ Heartbeat(i)
    \/ \E i \in Server : Overwrite("WaitersRun", i) /\ WaitersRun(i)
    \/ \E i \in Server : Overwrite("FsyncThread", i) /\ FsyncThread(i, TRUE)
    \/ \E i \in Server : Overwrite("Restart", i) /\ Restart(i)

SpecOverwrite == Init /\ [][NextOverwrite]_vars

\* A command is submitted in the term its server leads and is completed
\* with "lost leadership" when the server stops leading: the entry of a
\* command that succeeds is of the current term of its server.
CommandSuccessStep ==
    \A e \in hist'.completed \ hist.completed :
        e.status = "success" =>
            LET s == raft'[e.sid]
            IN /\ s.role = Leader
               /\ s.commit_index >= e.index
               /\ e.index >= s.log_start /\ e.index < log_end(s)
               /\ Entry(s, e.index).type = RAFT_DATA
               /\ Entry(s, e.index).term = s.current_term

\* C29: a command's status becomes Success only if at that moment the
\* server is Leader, commit_index >= the index of the command and the entry
\* at that index is the Data entry appended for that command, in the term in
\* which it was submitted.
SuccessMeansOwnEntryCommitted == [][CommandSuccessStep]_vars

(***************************************************************************)
(* Write errors of the log.  Two servers; after the election of server 1   *)
(* the store may fail the write of a command's entry, and the servers go   *)
(* on in any order.                                                        *)
(***************************************************************************)
StickyFree ==
    {"Execute", "ExecuteStoreFails", "HandleAppendRequest", "HandleAppendReply",
     "WaitersRun", "FsyncThread"}

Sticky(a, i) == Sched(ElectSchedule, StickyFree, a, i)

NextSticky ==
    \/ \E i \in Server : Sticky("Timeout", i) /\ Timeout(i, TRUE, MaxTerm)
    \/ \E i \in Server : Sticky("HandleVoteRequest", i) /\ HandleVoteRequest(i, TRUE)
    \/ \E i \in Server : Sticky("HandleVoteReply", i) /\ HandleVoteReply(i, TRUE)
    \/ \E i \in Server : Sticky("Execute", i) /\ Execute(i, TRUE)
    \/ \E i \in Server : Sticky("ExecuteStoreFails", i) /\ ExecuteStoreFails(i)
    \/ \E i \in Server : Sticky("HandleAppendRequest", i) /\ HandleAppendRequest(i, TRUE)
    \/ \E i \in Server : Sticky("HandleAppendReply", i) /\ HandleAppendReply(i, TRUE)
    \/ \E i \in Server : Sticky("WaitersRun", i) /\ WaitersRun(i)
    \/ \E i \in Server : Sticky("FsyncThread", i) /\ FsyncThread(i, TRUE)

SpecSticky == InitRepl /\ [][NextSticky]_vars

LogKept(i) == raft'[i].log = raft[i].log /\ raft'[i].log_start = raft[i].log_start

\* The step in which a write of server i fails leaves its log as it was.
RollbackStep ==
    \A i \in Server :
        (/\ \E e \in hist'.write_errors \ hist.write_errors : e[1] = i
         /\ raft'[i].role /= Aborted)
        => LogKept(i)

\* Once a write of server i has failed in its current term, no step of
\* that term changes its log.
StickyStep ==
    \A i \in Server :
        (/\ <<i, raft[i].current_term>> \in hist.write_errors
         /\ raft'[i].current_term = raft[i].current_term
         /\ raft'[i].role /= Aborted)
        => LogKept(i)

\* The first half of C30 by itself.
WriteErrorRollsBack == [][RollbackStep]_vars

\* C30: after the store write of a log append has failed the in-memory log
\* is as before the call, and every later append attempted in the same term
\* fails too and leaves the log unchanged.
StickyWriteError == [][RollbackStep /\ StickyStep]_vars

(***************************************************************************)
(* The member set and the log.                                             *)
(***************************************************************************)
\* The configuration that the log and the snapshot of server s give.
LogConfiguration(s) ==
    IF LastServersIndex(s) /= 0 THEN Entry(s, LastServersIndex(s)).data
    ELSE s.prev_servers

\* The step handles an RPC addressed to server i.
HandlesRPC(i) == \E m \in msgs \ msgs' : m.to = i

MembersFromLogStep ==
    \A i \in Server :
        HandlesRPC(i) /\ raft'[i].role /= Aborted
            => DOMAIN raft'[i].servers = LogConfiguration(raft'[i])

\* C31: after every handled RPC, truncation or snapshot installation the
\* member set of a server is the configuration of the newest Servers entry
\* of its log, or prev_servers when the log holds none, which after the
\* installation of a snapshot is the last_servers of the request.
MembersFollowLog == [][MembersFromLogStep]_vars

(***************************************************************************)
(* Removal of a server.  Three servers; two RemoveServerRequests are in    *)
(* flight, one to server 1 and one to server 1 or 2, each for a member or  *)
(* for a server that is none; server 1 is elected and the servers go on in *)
(* any order.                                                              *)
(***************************************************************************)
RemoveServerRequest(o, to, target) ==
    [type |-> "remove_server_request", from |-> o, to |-> to, sid |-> target]

InitRemove ==
    \E t1, t2 \in (1..NServers) \cup {Joiner} : \E to \in 1..2 :
        /\ raft = InitWorld(NServers).raft
        /\ msgs = {RemoveServerRequest(3, 1, t1), RemoveServerRequest(2, to, t2)}
        /\ hist = InitWorld(NServers).hist
        /\ fs = 0
        /\ done = 0

RemoveFree ==
    {"HandleRemoveServerRequest", "HandleAppendRequest", "HandleAppendReply",
     "WaitersRun", "FsyncThread"}

\* Server 1 is elected, then its first command commits, and with it the
\* configuration of the log.
RemoveSchedule == ElectSchedule \o CommitSchedule

Remove(a, i) == Sched(RemoveSchedule, RemoveFree, a, i)

NextRemove ==
    \/ \E i \in Server : Remove("Timeout", i) /\ Timeout(i, TRUE, MaxTerm)
    \/ \E i \in Server : Remove("Execute", i) /\ Execute(i, TRUE)
    \/ \E i \in Server : Remove("HandleVoteRequest", i) /\ HandleVoteRequest(i, TRUE)
    \/ \E i \in Server : Remove("HandleVoteReply", i) /\ HandleVoteReply(i, TRUE)
    \/ \E i \in Server : Remove("HandleRemoveServerRequest", i)
                            /\ HandleRemoveServerRequest(i)
    \/ \E i \in Server : Remove("HandleAppendRequest", i) /\ HandleAppendRequest(i, TRUE)
    \/ \E i \in Server : Remove("HandleAppendReply", i) /\ HandleAppendReply(i, TRUE)
    \/ \E i \in Server : Remove("WaitersRun", i) /\ WaitersRun(i)
    \/ \E i \in Server : Remove("FsyncThread", i) /\ FsyncThread(i, TRUE)

SpecRemove == InitRemove /\ [][NextRemove]_vars

\* The leader s returns no status for the request: its target is a Stable
\* member and another member that is not being removed remains.
RemovalAccepted(s, rq) ==
    /\ s.role = Leader
    /\ rq.sid \notin DOMAIN s.add_servers
    /\ rq.sid \in DOMAIN s.servers
    /\ s.servers[rq.sid].phase = RAFT_PHASE_STABLE
    /\ \E x \in DOMAIN s.servers : x /= rq.sid /\ s.servers[x].phase /= RAFT_PHASE_REMOVE

\* The target is marked, in the member set or, when the driver has already
\* taken it out, as the pending removal.
TargetMarked(s, rq) ==
    \/ /\ rq.sid \in DOMAIN s.servers
       /\ s.servers[rq.sid].phase = RAFT_PHASE_REMOVE
       /\ s.servers[rq.sid].reply_sid = rq.from
    \/ /\ s.remove_server /= None
       /\ s.remove_server.sid = rq.sid
       /\ s.remove_server.reply_sid = rq.from

RemovalMarkStep ==
    \A i \in Server : \A rq \in msgs \ msgs' :
        (/\ rq.to = i /\ rq.type = "remove_server_request"
         /\ RemovalAccepted(raft[i], rq))
        => /\ raft'[i].role = Leader
           /\ TargetMarked(raft'[i], rq)
           /\ \A x \in DOMAIN raft[i].servers \ {rq.sid} :
                  /\ x \in DOMAIN raft'[i].servers
                  /\ raft'[i].servers[x].phase = raft[i].servers[x].phase
                  /\ raft'[i].servers[x].reply_sid = raft[i].servers[x].reply_sid

\* C40: when the leader accepts a RemoveServerRequest, the requested target
\* and no other server gets phase Remove and the requester as the
\* destination of the later reply; the phase and the reply destination of
\* every other server are unchanged.
RemovalMarksTarget == [][RemovalMarkStep]_vars

(***************************************************************************)
(* The removal of a member and the log.  The handler of an accepted        *)
(* RemoveServerRequest calls raft_run_reconfigure; when no configuration   *)
(* change is uncommitted, that run of the driver is the one that takes     *)
(* the member out of the member set.                                       *)
(***************************************************************************)
DriverRemoves(s, rq) == RemovalAccepted(s, rq) /\ ~raft_has_uncommitted_configuration(s)

\* The entries the step appended to the log of s, as <<index, entry>>.
Appended(s, t) == {<<k, Entry(t, k)>> : k \in log_end(s)..(log_end(t) - 1)}

RemovalLogStep ==
    \A i \in Server : \A rq \in msgs \ msgs' :
        (/\ rq.to = i /\ rq.type = "remove_server_request"
         /\ DriverRemoves(raft[i], rq))
        => /\ raft'[i].role = Leader
           /\ rq.sid \notin DOMAIN raft'[i].servers
           /\ \E a \in Appended(raft[i], raft'[i]) :
                  /\ a[2].type = RAFT_SERVERS
                  /\ a[2].data = DOMAIN raft[i].servers \ {rq.sid}
           /\ \A r \in msgs' \ msgs :
                  ~(r.type = "add_server_reply" /\ r.to = rq.from /\ r.status = "ok")

InitConfig ==
    /\ raft = (Joiner :> raft_alloc(Joiner, JoinSnap, <<>>, 0)) @@ InitWorld(NServers).raft
    /\ msgs = InitWorld(NServers).msgs
    /\ hist = InitWorld(NServers).hist
    /\ fs = 0
    /\ done = 0

ConfigFree ==
    {"Execute", "HandleAddServerRequest", "HandleAppendRequest", "HandleAppendReply",
     "HandleInstallSnapshotRequest", "HandleInstallSnapshotReply", "WaitersRun",
     "FsyncThread"}

Config(a, i) == Sched(ElectSchedule, ConfigFree, a, i)

\* Server 3 is out of reach all along: it takes no step.
ConfigServers == {1, 2, Joiner}

NextConfig ==
    \/ \E i \in ConfigServers : Config("Timeout", i) /\ Timeout(i, TRUE, MaxTerm)
    \/ \E i \in ConfigServers : Config("HandleVoteRequest", i) /\ HandleVoteRequest(i, TRUE)
    \/ \E i \in ConfigServers : Config("HandleVoteReply", i) /\ HandleVoteReply(i, TRUE)
    \/ \E i \in ConfigServers : /\ Config("Execute", i) /\ hist.ncmd < MaxJoinCmds
                            /\ Execute(i, TRUE)
    \/ \E i \in ConfigServers : /\ Config("HandleAddServerRequest", i) /\ raft[i].role = Leader
                            /\ HandleAddServerRequest(i)
                            /\ Joiner \in DOMAIN raft'[i].add_servers
                            /\ raft'[i].add_servers[Joiner].reply_sid = Joiner
    \/ \E i \in ConfigServers : Config("HandleAppendRequest", i) /\ HandleAppendRequest(i, TRUE)
    \/ \E i \in ConfigServers : Config("HandleAppendReply", i) /\ HandleAppendReply(i, TRUE)
    \/ \E i \in ConfigServers : /\ Config("HandleInstallSnapshotRequest", i)
                            /\ HandleInstallSnapshotRequest(i, TRUE)
    \/ \E i \in ConfigServers : /\ Config("HandleInstallSnapshotReply", i)
                            /\ HandleInstallSnapshotReply(i, TRUE)
    \/ \E i \in ConfigServers : Config("WaitersRun", i) /\ WaitersRun(i)
    \/ \E i \in ConfigServers : Config("FsyncThread", i) /\ FsyncThread(i, TRUE)

SpecConfig == InitConfig /\ [][NextConfig]_vars

\* The indexes of the Servers entries of s above commit_index.
UncommittedConfigurations(s) ==
    {k \in (s.commit_index + 1)..(log_end(s) - 1) :
        k >= s.log_start /\ Entry(s, k).type = RAFT_SERVERS}

DriverAdds(i, x) ==
    /\ raft[i].role = Leader /\ raft'[i].role = Leader
    /\ x \in DOMAIN raft[i].add_servers
    /\ x \in DOMAIN raft'[i].servers
    /\ raft'[i].servers[x].phase = RAFT_PHASE_COMMITTING

ConfigChangeStep ==
    \A i \in Server :
        /\ \A x \in DOMAIN raft[i].add_servers :
               DriverAdds(i, x)
               => /\ UncommittedConfigurations(raft'[i]) = {log_end(raft'[i]) - 1}
                  /\ Entry(raft'[i], log_end(raft'[i]) - 1).data = DOMAIN raft'[i].servers
                  /\ DOMAIN raft'[i].servers = DOMAIN raft[i].servers \cup {x}
        /\ (raft[i].role = Leader /\ raft'[i].role = Leader
            /\ DOMAIN raft'[i].servers /= DOMAIN raft[i].servers)
               => \E x \in DOMAIN raft[i].add_servers : DriverAdds(i, x)

ChunkAccepted(s, rq) ==
    /\ TermIsCurrent(s, rq.term)
    /\ BytesLen(Take(s.snapshot_buf, rq.offset)) = rq.offset

NextOffsetStep ==
    \A i \in Server : \A rq \in msgs \ msgs' :
        (rq.to = i /\ rq.type = "install_snapshot_request")
        => \A r \in msgs' \ msgs :
               (/\ r.type = "install_snapshot_reply" /\ r.from = i /\ r.to = rq.from
                /\ r.next_offset = rq.offset + rq.chunk)
               => ChunkAccepted(raft[i], rq)

\* C34: the next_offset of an InstallSnapshotReply is offset + chunk of the
\* request only when the chunk was accepted; a chunk discarded for an offset
\* beyond the length of the buffer or for a stale term is not reported as
\* received.
NextOffsetIsResumePoint == [][NextOffsetStep]_vars

(***************************************************************************)
(* The local server among the members.                                     *)
(***************************************************************************)
\* "me" of server i is the member record of i, or null when i is no member.
MeIsLocal(i) ==
    raft[i].me = (IF i \in DOMAIN raft[i].servers THEN i ELSE None)

\* C35: on every server "me" designates the member record of the local
\* server id, or is null when the local server is not in the member set,
\* and no RPC is addressed to its sender.
MeDesignatesLocalServer ==
    /\ \A i \in Server : MeIsLocal(i)
    /\ \A m \in msgs : m.to /= m.from

(***************************************************************************)
(* Who sends AppendRequest and InstallSnapshotRequest.                     *)
(***************************************************************************)
LeaderRPCs == {"append_request", "install_snapshot_request"}

\* No step turns a leader into a follower after it has sent, so the role
\* at the moment of sending is the role at the end of the step.
LeaderSendsStep ==
    \A m \in msgs' \ msgs : m.type \in LeaderRPCs => raft'[m.from].role = Leader

\* C36: an AppendRequest or InstallSnapshotRequest is sent only by a server
\* whose role is Leader; the handling of no reply, whatever its term, makes
\* a Follower or Candidate send one.
OnlyLeaderSendsLeaderRPCs == [][LeaderSendsStep]_vars

(***************************************************************************)
(* The election timer of a leader.                                         *)
(***************************************************************************)
\* C37: while a server is Leader its election timeout is disabled, so that
\* raft_run never calls raft_start_election on a leader and the assertion
\* role != Leader at its start holds.
LeaderTimerDisabled == \A i \in Server : raft[i].role = Leader => ~raft[i].timer

(***************************************************************************)
(* Who advances commit_index by the majority rule.                         *)
(***************************************************************************)
\* The waiters of server i that the step completes: the list loses them at
\* its head.
FiredWaiters(i) ==
    {raft[i].waiters[k] : k \in 1..(Len(raft[i].waiters) - Len(raft'[i].waiters))}

\* Server i takes commit_index from nobody in this step: it handles no
\* request of a leader, whose snapshot it would adopt, and completes no
\* append waiter, with whose reply it adopts the leader_commit of the
\* request.
CommitsByItself(i) ==
    /\ raft'[i].commit_index > raft[i].commit_index
    /\ \A m \in msgs \ msgs' : m.to = i => m.type \notin LeaderRPCs
    /\ \A w \in FiredWaiters(i) : w.type /= RAFT_W_APPEND

MajorityCommitStep ==
    \A i \in Server :
        CommitsByItself(i)
        => /\ raft[i].role = Leader
           /\ \A n \in (raft[i].commit_index + 1)..raft'[i].commit_index :
                  2 * MatchCount(raft'[i], n) > Cardinality(DOMAIN raft[i].servers)

\* Leader 1 executes a command whose fsync is late, server 2 acknowledges
\* the entry, and server 3 times out twice: server 1 loses the leadership with
\* the command waiter pending.  Then server 1 alone times out, and may be
\* elected again.
StaleSchedule ==
    ElectSchedule \o
    << <<"Execute", 1>>, <<"HandleAppendRequest", 2>>, <<"HandleAppendRequest", 2>>,
       <<"FsyncThread", 2>>, <<"WaitersRun", 2>>, <<"HandleAppendReply", 1>>,
       <<"HandleAppendReply", 1>>, <<"Timeout", 3>>, <<"Timeout", 3>>,
       <<"HandleVoteRequest", 1>>, <<"HandleVoteRequest", 1>> >>

StaleFree ==
    {"Timeout", "HandleVoteRequest", "HandleVoteReply", "WaitersRun", "FsyncThread"}

Stale(a, i) == Sched(StaleSchedule, StaleFree, a, i)

NextStale ==
    \/ \E i \in Server : /\ Stale("Timeout", i)
                          /\ (done < Len(StaleSchedule) \/ i = 1)
                          /\ Timeout(i, TRUE, MaxStaleTerm)
    \/ \E i \in Server : Stale("HandleVoteRequest", i) /\ HandleVoteRequest(i, TRUE)
    \/ \E i \in Server : Stale("HandleVoteReply", i) /\ HandleVoteReply(i, TRUE)
    \/ \E i \in Server : /\ Stale("Execute", i) /\ hist.ncmd < MaxJoinCmds
                          /\ Execute(i, TRUE)
    \/ \E i \in Server : Stale("HandleAppendRequest", i) /\ HandleAppendRequest(i, TRUE)
    \/ \E i \in Server : Stale("HandleAppendReply", i) /\ HandleAppendReply(i, TRUE)
    \/ \E i \in Server : Stale("WaitersRun", i) /\ WaitersRun(i)
    \/ \E i \in Server : Stale("FsyncThread", i) /\ FsyncThread(i, TRUE)

SpecStale == Init /\ [][NextStale]_vars

AckFree == {"HandleAppendRequest", "HandleAppendReply", "WaitersRun", "FsyncThread"}

Ack(a, i) == Sched(SplitSchedule, AckFree, a, i)

NextAck ==
    \/ \E i \in Server : Ack("Timeout", i) /\ Timeout(i, TRUE, MaxReplTerm)
    \/ \E i \in Server : Ack("HandleVoteRequest", i) /\ HandleVoteRequest(i, TRUE)
    \/ \E i \in Server : Ack("HandleVoteRequestStoreFails", i)
                            /\ HandleVoteRequestStoreFails(i)
    \/ \E i \in Server : Ack("HandleVoteReply", i) /\ HandleVoteReply(i, TRUE)
    \/ \E i \in Server : Ack("Execute", i) /\ Execute(i, TRUE)
    \/ \E i \in Server : /\ Ack("HandleAppendRequest", i) /\ i = Challenger
                         /\ HandleAppendRequest(i, TRUE)
    \/ \E i \in Server : Ack("HandleAppendReply", i) /\ HandleAppendReply(i, TRUE)
    \/ \E i \in Server : Ack("WaitersRun", i) /\ WaitersRun(i)
    \/ \E i \in Server : Ack("FsyncThread", i) /\ FsyncThread(i, TRUE)
    \/ \E i \in Server : Ack("Restart", i) /\ Restart(i)

SpecAck == Init /\ [][NextAck]_vars

\* The entries of the request that append waiter w stands for: those its
\* sender holds from prev_log_index + 1 on, the sender having neither added
\* to its log nor taken from it since it sent the request.
AcknowledgedEntries(w) ==
    [k \in 1..w.n_entries |-> Entry(raft[w.from], w.prev_log_index + k)]

\* Server i holds the entries that append waiter w acknowledges.
HoldsAcknowledged(s, w) ==
    /\ w.prev_log_index + w.n_entries < log_end(s)
    /\ \A k \in 1..w.n_entries :
           /\ w.prev_log_index + k >= s.log_start
           /\ Entry(s, w.prev_log_index + k) = AcknowledgedEntries(w)[k]

AcknowledgeStep ==
    \A i \in Server : \A w \in FiredWaiters(i) :
        /\ w.type = RAFT_W_APPEND
        /\ \E m \in msgs' \ msgs :
               /\ m.type = "append_reply" /\ m.from = i /\ m.to = w.from
               /\ m.success /\ m.prev_log_index = w.prev_log_index
               /\ m.n_entries = w.n_entries
        => HoldsAcknowledged(raft'[i], w)

\* C39: an AppendReply with success = true that is sent when an append
\* waiter fires acknowledges entries that are in the log of its sender at
\* that moment: prev_log_index + n_entries < log_end, and at the indices it
\* acknowledges the log holds the entries of the request, also when another
\* request replaced them between the append and the end of its fsync.
AcknowledgedEntriesAreHeld == [][AcknowledgeStep]_vars

====
